---- MODULE Spec2Model ----
(***************************************************************************)
(* Backlinks verifier (src/main.py): the page fetcher with its retry loop, *)
(* the match engine (variation generation and the four search steps) and   *)
(* the batch orchestrator, as state machines over Python's string          *)
(* operations.                                                             *)
(***************************************************************************)
EXTENDS Integers, Sequences, FiniteSets, TLC

(***************************************************************************)
(* Python values.  None is the empty tuple and a present value v of an     *)
(* Optional field is <<v>>; a dict is a record whose DOMAIN is its key set. *)
(***************************************************************************)
None == <<>>

Some(v) == <<v>>

Get(d, key) == IF key \in DOMAIN d THEN d[key] ELSE None

Min(a, b) == IF a < b THEN a ELSE b

Max(a, b) == IF a > b THEN a ELSE b

(***************************************************************************)
(* Python str operations, character by character.  Strings are TLA+        *)
(* strings; the two non-ASCII characters the model needs are written with  *)
(* ASCII stand-ins: DottedI is U+0130 (LATIN CAPITAL LETTER I WITH DOT     *)
(* ABOVE), whose str.lower() is the two characters "i" U+0307, and         *)
(* CombiningDot is U+0307.                                                 *)
(***************************************************************************)
DottedI == "^"

CombiningDot == "~"

UpperAlpha == "ABCDEFGHIJKLMNOPQRSTUVWXYZ"

LowerAlpha == "abcdefghijklmnopqrstuvwxyz"

Whitespace == {" ", "\t", "\n", "\r"}

CharAt(s, i) == SubSeq(s, i, i)

Letters == 1..Len(UpperAlpha)

\* the lower-case characters of the upper-case letters, and back
LowerOf == [c \in {CharAt(UpperAlpha, i) : i \in Letters} |->
               CharAt(LowerAlpha, CHOOSE i \in Letters : CharAt(UpperAlpha, i) = c)]

UpperOf == [c \in {CharAt(LowerAlpha, i) : i \in Letters} |->
               CharAt(UpperAlpha, CHOOSE i \in Letters : CharAt(LowerAlpha, i) = c)]

LowerChar(c) ==
    IF c = DottedI THEN "i" \o CombiningDot
    ELSE IF c \in DOMAIN LowerOf THEN LowerOf[c]
    ELSE c

UpperChar(c) == IF c \in DOMAIN UpperOf THEN UpperOf[c] ELSE c

IsCased(c) == c = DottedI \/ c \in DOMAIN LowerOf \/ c \in DOMAIN UpperOf

RECURSIVE FlattenRange(_, _, _)
FlattenRange(pieces, lo, hi) ==
    IF lo > hi THEN ""
    ELSE IF lo = hi THEN pieces[lo]
    ELSE LET mid == (lo + hi) \div 2
         IN  FlattenRange(pieces, lo, mid) \o FlattenRange(pieces, mid + 1, hi)

\* "".join(pieces)
Flatten(pieces) == FlattenRange(pieces, 1, Len(pieces))

\* str.lower()
Lower(s) == Flatten([i \in 1..Len(s) |-> LowerChar(CharAt(s, i))])

\* str.upper()
Upper(s) == Flatten([i \in 1..Len(s) |-> UpperChar(CharAt(s, i))])

\* str.title(): a cased character is upper-cased after an uncased one, lowered otherwise
Title(s) ==
    Flatten([i \in 1..Len(s) |->
                IF i > 1 /\ IsCased(CharAt(s, i - 1))
                THEN LowerChar(CharAt(s, i))
                ELSE UpperChar(CharAt(s, i))])

\* s.startswith(p)
StartsWith(s, p) == Len(p) <= Len(s) /\ SubSeq(s, 1, Len(p)) = p

\* sub occurs in s at 0-based offset i
OccursAt(s, sub, i) == i + Len(sub) <= Len(s) /\ SubSeq(s, i + 1, i + Len(sub)) = sub

EndsWith(s, p) == Len(p) <= Len(s) /\ SubSeq(s, Len(s) - Len(p) + 1, Len(s)) = p

\* sub in s
Contains(s, sub) == \E i \in 0..(Len(s) - Len(sub)) : OccursAt(s, sub, i)

\* s.find(sub): the least 0-based offset, -1 when sub does not occur
Find(s, sub) ==
    IF Contains(s, sub)
    THEN CHOOSE i \in 0..(Len(s) - Len(sub)) :
            /\ OccursAt(s, sub, i)
            /\ \A j \in 0..(i - 1) : ~OccursAt(s, sub, j)
    ELSE -1

\* s[a:b] for 0 <= a, 0 <= b
Slice(s, a, b) == SubSeq(s, a + 1, Min(b, Len(s)))

\* the least offset >= from at which sub occurs in s, -1 when there is none
FindFrom(s, sub, from) ==
    IF \E i \in from..(Len(s) - Len(sub)) : OccursAt(s, sub, i)
    THEN CHOOSE i \in from..(Len(s) - Len(sub)) :
            /\ OccursAt(s, sub, i)
            /\ \A j \in from..(i - 1) : ~OccursAt(s, sub, j)
    ELSE -1

RECURSIVE ReplaceFrom(_, _, _, _)
ReplaceFrom(s, old, new, from) ==
    LET k == FindFrom(s, old, from)
    IN  IF k < 0 THEN SubSeq(s, from + 1, Len(s))
        ELSE SubSeq(s, from + 1, k) \o new \o ReplaceFrom(s, old, new, k + Len(old))

\* s.replace(old, new) for a non-empty old: every non-overlapping occurrence, left to right
Replace(s, old, new) == ReplaceFrom(s, old, new, 0)

\* s.rstrip(ch) for one character ch
RStrip(s, ch) ==
    LET keep == {i \in 1..Len(s) : CharAt(s, i) # ch}
    IN  IF keep = {} THEN "" ELSE SubSeq(s, 1, CHOOSE i \in keep : \A j \in keep : j <= i)

\* s.strip()
Strip(s) ==
    LET keep == {i \in 1..Len(s) : CharAt(s, i) \notin Whitespace}
    IN  IF keep = {} THEN ""
        ELSE SubSeq(s, CHOOSE i \in keep : \A j \in keep : i <= j,
                       CHOOSE i \in keep : \A j \in keep : j <= i)

RECURSIVE Split(_, _)
\* s.split(sep) for one character sep: the list of the pieces, at least one
Split(s, sep) ==
    IF Contains(s, sep)
    THEN <<Slice(s, 0, Find(s, sep))>> \o Split(SubSeq(s, Find(s, sep) + 2, Len(s)), sep)
    ELSE <<s>>

\* " ".join(s.split()): the runs of whitespace inside become one space, those at the
\* ends go
CollapseWhitespace(s) ==
    LET words == {i \in 1..Len(s) : CharAt(s, i) \notin Whitespace}
        last == IF words = {} THEN 0 ELSE CHOOSE i \in words : \A j \in words : j <= i
    IN  Flatten([i \in 1..Len(s) |->
                    IF i \in words THEN CharAt(s, i)
                    ELSE IF i > 1 /\ (i - 1) \in words /\ i < last THEN " "
                    ELSE ""])

\* re.sub(r'<[^>]+>', ' ', s): "<", one or more characters other than ">", ">".
\* Between two ">" the match, if any, runs from the first "<" to the closing ">",
\* unless that "<" is the character right before it.
StripTags(s) ==
    LET closes == {i \in 1..Len(s) : CharAt(s, i) = ">"}
        opens == {i \in 1..Len(s) : CharAt(s, i) = "<"}
        \* the closing ">" of the stretch position i lies in, 0 when none follows
        closeOf(i) == IF \E k \in closes : k >= i
                      THEN CHOOSE k \in closes : k >= i /\ \A m \in closes : m >= i => k <= m
                      ELSE 0
        \* the first "<" of the stretch that ends at the ">" at k, 0 when it has none
        openOf(k) == LET inside == {j \in opens : j < k /\ \A m \in closes : ~(j < m /\ m < k)}
                     IN  IF inside = {} THEN 0
                         ELSE CHOOSE j \in inside : \A m \in inside : j <= m
        \* the first position of the match that covers i, 0 when none does
        tagOf(i) == LET k == closeOf(i)
                        j == IF k = 0 THEN 0 ELSE openOf(k)
                    IN  IF j > 0 /\ j <= k - 2 /\ j <= i THEN j ELSE 0
    IN  Flatten([i \in 1..Len(s) |->
                    IF tagOf(i) = 0 THEN CharAt(s, i)
                    ELSE IF tagOf(i) = i THEN " "
                    ELSE ""])

\* faulty variant of DictFromKeys: of equal strings the last one is kept
DictFromKeys_KeepLast(xs) ==
    LET lasts == {i \in 1..Len(xs) : \A j \in (i + 1)..Len(xs) : xs[j] # xs[i]}
    IN  [k \in 1..Cardinality(lasts) |->
            xs[CHOOSE i \in lasts : Cardinality({j \in lasts : j <= i}) = k]]

\* list(dict.fromkeys(xs)): first occurrences, in order
DictFromKeys(xs) ==
    LET firsts == {i \in 1..Len(xs) : \A j \in 1..(i - 1) : xs[j] # xs[i]}
    IN  [k \in 1..Cardinality(firsts) |->
            xs[CHOOSE i \in firsts : Cardinality({j \in firsts : j <= i}) = k]]

\* c * n
RECURSIVE Repeat(_, _)
Repeat(c, n) ==
    IF n <= 0 THEN ""
    ELSE IF n = 1 THEN c
    ELSE LET half == Repeat(c, n \div 2)
         IN  half \o half \o (IF n % 2 = 1 THEN c ELSE "")

(***************************************************************************)
(* Page fetcher: BacklinksVerifier.fetch_page_content.                     *)
(*                                                                         *)
(* What session.get does on one attempt is the environment's choice:       *)
(*   [kind |-> "timeout"]                     requests.exceptions.Timeout  *)
(*   [kind |-> "exception", msg, resp]        another RequestException; resp is *)
(*        the status of the response it carries, or None                   *)
(*   [kind |-> "response", status, content_len, text, soup_text, soup_html, url] *)
(*        content_len is len(response.content), text is response.text (None *)
(*        when decoding raises), soup_text and soup_html are what          *)
(*        BeautifulSoup yields for get_text() and str(soup) once script    *)
(*        and style are removed, url is the post-redirect URL.             *)
(***************************************************************************)
DefaultMaxRetries == 3

DefaultTimeout == 10

normalize_url(url) ==
    IF StartsWith(url, "http://") \/ StartsWith(url, "https://") THEN url
    ELSE "https://" \o url

\* the least offset at which one of the characters of stops occurs in s, Len(s) when none does
FirstStop(s, stops) ==
    IF \E i \in 1..Len(s) : CharAt(s, i) \in stops
    THEN (CHOOSE i \in 1..Len(s) :
             /\ CharAt(s, i) \in stops
             /\ \A j \in 1..(i - 1) : CharAt(s, j) \notin stops) - 1
    ELSE Len(s)

\* urlparse(url).netloc of a URL that starts with http:// or https://
Netloc(url) ==
    LET rest == SubSeq(url, Find(url, "//") + 3, Len(url))
    IN  Slice(rest, 0, FirstStop(rest, {"/", "?", "#"}))

\* urlparse raises ValueError("Invalid IPv6 URL") on a netloc with one bracket only
UrlparseRaises(url) ==
    LET n == Netloc(url)
    IN  \/ Contains(n, "[") /\ ~Contains(n, "]")
        \/ Contains(n, "]") /\ ~Contains(n, "[")

\* the hosts that get the Sec-Fetch-* headers and the Referer
AntiBotHeaders(domain) == Contains(domain, "heylink.me") \/ Contains(domain, "cloudflare")

\* the sleep before an attempt that is not the first: [lo, hi] seconds
BackoffRange(domain) ==
    IF ~Contains(domain, "heylink.me") THEN [lo |-> 2, hi |-> 5] ELSE [lo |-> 3, hi |-> 8]

\* bool(e.response): a requests Response is true when its status is below 400
ResponseTruthy(resp) == resp # None /\ resp[1] < 400

\* raise_for_status raises HTTPError for 400..599
RaisesForStatus(status) == 400 <= status /\ status < 600

HTTPErrorMessage(resp) ==
    ToString(resp.status)
        \o (IF resp.status < 500 THEN " Client Error" ELSE " Server Error")
        \o " for url: " \o resp.url

\* faulty variant of Has403Content: the threshold is met by 100 characters
Has403Content_AtLeast100(resp) ==
    /\ resp.content_len > 0
    /\ resp.text # None
    /\ Len(Lower(resp.text[1])) >= 100

\* the 403 branch's test for usable content
Has403Content(resp) ==
    /\ resp.content_len > 0
    /\ resp.text # None
    /\ Len(Lower(resp.text[1])) > 100

\* faulty variant of Success403: the html content is left out
Success403_NoHtml(resp) ==
    [success |-> TRUE,
     text_content |-> Lower(resp.text[1]),
     status_code |-> Some(403),
     url |-> resp.url,
     warning |-> "403 Forbidden but content was accessible"]

Success403(resp) ==
    [success |-> TRUE,
     text_content |-> Lower(resp.text[1]),
     html_content |-> Lower(resp.text[1]),
     status_code |-> Some(403),
     url |-> resp.url,
     warning |-> "403 Forbidden but content was accessible"]

Failure403(url) ==
    [success |-> FALSE, error |-> "403 Forbidden - Access denied",
     status_code |-> Some(403), url |-> url]

Failure429(url) ==
    [success |-> FALSE, error |-> "429 Too Many Requests - Rate limited",
     status_code |-> Some(429), url |-> url]

SuccessPage(resp) ==
    [success |-> TRUE,
     text_content |-> Lower(resp.soup_text),
     html_content |-> Lower(resp.soup_html),
     status_code |-> Some(resp.status),
     url |-> resp.url]

FailureTimeout(url, timeout) ==
    [success |-> FALSE,
     error |-> "Request timeout after " \o ToString(timeout) \o " seconds",
     status_code |-> None, url |-> url]

FailureException(url, msg, resp) ==
    [success |-> FALSE, error |-> msg,
     status_code |-> IF ResponseTruthy(resp) THEN resp ELSE None,
     url |-> url]

FailureExhausted(url, max_retries) ==
    [success |-> FALSE,
     error |-> "Failed after " \o ToString(max_retries) \o " attempts",
     status_code |-> None, url |-> url]

Continue(events) == [ctl |-> "continue", events |-> events]

Return(events, value) == [ctl |-> "return", events |-> events, value |-> value]

Raise(events, exc) == [ctl |-> "raise", events |-> events, exc |-> exc]

\* the except clauses of the loop body: retry while attempts remain, else the failure
OnRequestException(url, attempt, max_retries, events, failure) ==
    IF attempt < max_retries - 1 THEN Continue(events) ELSE Return(events, failure)

\* the branch for a 403 response
On403(url, attempt, max_retries, events, env) ==
    IF Has403Content(env) THEN Return(events, Success403(env))
    ELSE IF attempt < max_retries - 1 THEN Continue(events)
    ELSE Return(events, Failure403(url))

\* faulty variant of On429: the failure is returned at once, whatever the attempt
On429_NoRetry(url, attempt, max_retries, events) == Return(events, Failure429(url))

\* the branch for a 429 response
On429(url, attempt, max_retries, events) ==
    IF attempt < max_retries - 1
    THEN Continue(events \o <<[ev |-> "sleep", lo |-> 5, hi |-> 10]>>)
    ELSE Return(events, Failure429(url))

(***************************************************************************)
(* One iteration of the retry loop, for attempt (0-based) and the          *)
(* environment's answer env to the request it issues.  url is already      *)
(* normalized.  The events are the sleeps and the request, in order.       *)
(***************************************************************************)
fetch_attempt(url, timeout, attempt, max_retries, env) ==
    IF UrlparseRaises(url)
    THEN Raise(<<>>, [type |-> "ValueError", msg |-> "Invalid IPv6 URL"])
    ELSE
    LET domain == Lower(Netloc(url))
        backoff == IF attempt > 0
                   THEN <<[ev |-> "sleep", lo |-> BackoffRange(domain).lo,
                           hi |-> BackoffRange(domain).hi]>>
                   ELSE <<>>
        get == <<[ev |-> "get", attempt |-> attempt,
                  sec_fetch |-> AntiBotHeaders(domain)]>>
        events == backoff \o get
    IN  IF env.kind = "timeout"
        THEN OnRequestException(url, attempt, max_retries, events,
                                FailureTimeout(url, timeout))
        ELSE IF env.kind = "exception"
        THEN OnRequestException(url, attempt, max_retries, events,
                                FailureException(url, env.msg, env.resp))
        ELSE IF env.status = 403 THEN On403(url, attempt, max_retries, events, env)
        ELSE IF env.status = 429 THEN On429(url, attempt, max_retries, events)
        ELSE IF RaisesForStatus(env.status)
        THEN OnRequestException(url, attempt, max_retries, events,
                                FailureException(url, HTTPErrorMessage(env),
                                                 Some(env.status)))
        ELSE Return(events, SuccessPage(env))

RECURSIVE FetchLoop(_, _, _, _, _)
FetchLoop(url, timeout, attempt, max_retries, script) ==
    IF attempt >= max_retries THEN Return(<<>>, FailureExhausted(url, max_retries))
    ELSE LET step == fetch_attempt(url, timeout, attempt, max_retries, script[attempt + 1])
         IN  IF step.ctl = "continue"
             THEN FetchLoop(url, timeout, attempt + 1, max_retries, script)
             ELSE step

\* fetch_page_content(url) against script, the environment's answers attempt by attempt:
\* [ctl |-> "return", value |-> the dict] or [ctl |-> "raise", exc |-> the exception]
fetch_page_content(url, timeout, max_retries, script) ==
    FetchLoop(normalize_url(url), timeout, 0, max_retries, script)

(***************************************************************************)
(* Match engine: BacklinksVerifier.verify_backlink.                        *)
(***************************************************************************)
UrlIndicators == {"http", "www.", ".com", ".in", ".org", ".net"}

\* the term with protocol, "www." and trailing slashes removed
CleanUrl(base_term) ==
    RStrip(Replace(Replace(Replace(base_term, "https://", ""), "http://", ""), "www.", ""),
           "/")

UrlVariations(search_term, base_term) ==
    LET clean_url == CleanUrl(base_term)
        domain_parts == Split(Split(clean_url, "/")[1], ".")
        brand_name == domain_parts[1]
        base_domain == Split(clean_url, "/")[1]
    IN  <<base_term, Upper(search_term), Title(search_term),
          clean_url, "www." \o clean_url,
          "https://" \o clean_url, "http://" \o clean_url,
          "https://www." \o clean_url, "http://www." \o clean_url,
          clean_url \o "/", "www." \o clean_url \o "/",
          "https://" \o clean_url \o "/", "http://" \o clean_url \o "/",
          "https://www." \o clean_url \o "/", "http://www." \o clean_url \o "/">>
        \o (IF Contains(clean_url, ".") /\ Len(domain_parts) >= 2
            THEN <<brand_name, Upper(brand_name), Title(brand_name)>>
            ELSE <<>>)
        \o <<base_domain, "www." \o base_domain,
             "https://" \o base_domain, "https://www." \o base_domain>>

TextVariations(base_term) ==
    <<base_term \o ".com", "www." \o base_term \o ".com",
      "https://" \o base_term \o ".com", "https://www." \o base_term \o ".com",
      "http://" \o base_term \o ".com", "http://www." \o base_term \o ".com",
      Upper(base_term), Title(base_term)>>

\* the variations in the order the code lists them, before duplicates are removed
RawVariations(search_term) ==
    LET base_term == Lower(search_term)
    IN  <<base_term>> \o
        (IF \E indicator \in UrlIndicators : Contains(base_term, indicator)
         THEN UrlVariations(search_term, base_term)
         ELSE TextVariations(base_term))

\* the variations generated from the lowercased term, duplicates removed
GeneratedVariations(search_term) == DictFromKeys(RawVariations(search_term))

\* faulty variant of search_variations: the case-sensitive term is lowercased
search_variations_Lowercased(search_term, case_sensitive) ==
    IF case_sensitive THEN <<Lower(search_term)>> ELSE GeneratedVariations(search_term)

\* the list search_variations
search_variations(search_term, case_sensitive) ==
    IF case_sensitive THEN <<search_term>> ELSE GeneratedVariations(search_term)

\* faulty variant of FirstFound: the loop does not break, the last variation that
\* occurs is kept
FirstFound_Last(variations, content) ==
    IF \E k \in 1..Len(variations) : Contains(content, variations[k])
    THEN CHOOSE k \in 1..Len(variations) :
            /\ Contains(content, variations[k])
            /\ \A j \in (k + 1)..Len(variations) : ~Contains(content, variations[j])
    ELSE 0

\* the index of the first variation that occurs in content, 0 when none does:
\* for variation in search_variations: if variation in content: ... break
FirstFound(variations, content) ==
    IF \E k \in 1..Len(variations) : Contains(content, variations[k])
    THEN CHOOSE k \in 1..Len(variations) :
            /\ Contains(content, variations[k])
            /\ \A j \in 1..(k - 1) : ~Contains(content, variations[j])
    ELSE 0

\* the context around the first occurrence of variation in the page text
TextContext(text_content, variation) ==
    LET index == Find(text_content, variation)
        start == Max(0, index - 200)
        end == Min(Len(text_content), index + Len(variation) + 200)
        context == CollapseWhitespace(Slice(text_content, start, end))
        term_pos == Find(Lower(context), Lower(variation))
    IN  IF Len(context) > 50 /\ term_pos > 150
        THEN "..." \o Slice(context, term_pos - 100, term_pos + 200) \o "..."
        ELSE context

\* the context around the first occurrence of variation in the html
HtmlContext(html_content, variation) ==
    LET index == Find(html_content, variation)
        start == Max(0, index - 150)
        end == Min(Len(html_content), index + Len(variation) + 150)
        clean_context == CollapseWhitespace(StripTags(Slice(html_content, start, end)))
    IN  IF Strip(clean_context) # "" THEN "HTML: " \o clean_context
        ELSE "Found in HTML source code"

\* the locals of the search: the two flags, context, found_variation; steps lists the
\* search blocks entered so far
MatchStart ==
    [found_in_text |-> FALSE, found_in_html |-> FALSE, context |-> None,
     found_variation |-> None, steps |-> <<>>]

\* Search in text content
TextSearch(m, variations, text_content) ==
    LET k == FirstFound(variations, text_content)
        entered == [m EXCEPT !.steps = Append(@, "text")]
    IN  IF k = 0 THEN entered
        ELSE [entered EXCEPT !.found_in_text = TRUE,
                             !.found_variation = Some(variations[k]),
                             !.context = Some(TextContext(text_content, variations[k]))]

\* faulty variant of HtmlGuard: the html is searched whatever the text search found
HtmlGuard_Always(m, search_in_html) == search_in_html

HtmlGuard(m, search_in_html) == ~m.found_in_text /\ search_in_html

\* Search in HTML if not found in text
HtmlSearch(m, variations, html_content) ==
    LET k == FirstFound(variations, html_content)
        entered == [m EXCEPT !.steps = Append(@, "html")]
    IN  IF k = 0 THEN entered
        ELSE [entered EXCEPT !.found_in_html = TRUE,
                             !.found_variation = Some(variations[k]),
                             !.context = Some(HtmlContext(html_content, variations[k]))]

\* faulty variant of UrlGuard: the url is checked only after a search of the html
UrlGuard_AfterHtml(m) ==
    ~m.found_in_text /\ ~m.found_in_html /\ m.steps = <<"text", "html">>

UrlGuard(m) == ~m.found_in_text /\ ~m.found_in_html

\* Check current page URL for domain matches
UrlSearch(m, variations, current_url) ==
    LET k == FirstFound(variations, current_url)
        entered == [m EXCEPT !.steps = Append(@, "url")]
    IN  IF k = 0 THEN entered
        ELSE [entered EXCEPT !.found_in_html = TRUE,
                             !.found_variation = Some(variations[k]),
                             !.context = Some("Found in page URL: " \o current_url)]

\* faulty variant of LinkGuard: the links are checked whatever search_in_html says
LinkGuard_NoFlag(m, search_in_html) == ~m.found_in_text /\ ~m.found_in_html

LinkGuard(m, search_in_html) == ~m.found_in_text /\ ~m.found_in_html /\ search_in_html

\* search_domain of the link check
SearchDomain(search_term) ==
    LET lowered == Lower(search_term)
    IN  IF Contains(lowered, "http")
        THEN Split(Replace(Replace(Replace(lowered, "https://", ""), "http://", ""),
                           "www.", ""), "/")[1]
        ELSE lowered

\* Look for domain name in any links on the page
LinkCheck(m, search_term, html_content) ==
    LET search_domain == SearchDomain(search_term)
        label == Split(search_domain, ".")[1]
        entered == [m EXCEPT !.steps = Append(@, "links")]
    IN  IF Contains(html_content, label) /\ Len(label) > 3
        THEN [entered EXCEPT !.found_in_html = TRUE,
                             !.found_variation = Some(search_domain),
                             !.context = Some("Domain found in page links")]
        ELSE entered

\* faulty variant of FailureResult: the status code of the fetch is dropped
FailureResult_NoStatus(url, search_term, result) ==
    [url |-> url, search_term |-> search_term, verified |-> FALSE,
     error |-> Some(result.error), status_code |-> None,
     found_in |-> None, context |-> None, found_variation |-> None, warning |-> None]

\* faulty variant of FailureResult: the error message is also given as the context
FailureResult_WithContext(url, search_term, result) ==
    [url |-> url, search_term |-> search_term, verified |-> FALSE,
     error |-> Some(result.error), status_code |-> Get(result, "status_code"),
     found_in |-> None, context |-> Some(result.error), found_variation |-> None,
     warning |-> None]

\* the BacklinkResult returned when the fetch failed
FailureResult(url, search_term, result) ==
    [url |-> url, search_term |-> search_term, verified |-> FALSE,
     error |-> Some(result.error), status_code |-> Get(result, "status_code"),
     found_in |-> None, context |-> None, found_variation |-> None, warning |-> None]

\* faulty variant of LimitContext: the context is not cut
LimitContext_Uncut(context) ==
    IF context # None /\ context[1] # "" THEN context ELSE None

\* context[:500] if context else None
LimitContext(context) ==
    IF context # None /\ context[1] # "" THEN Some(Slice(context[1], 0, 500)) ELSE None

\* the BacklinkResult returned after the search
MatchResult(url, search_term, result, m) ==
    [url |-> url, search_term |-> search_term,
     verified |-> m.found_in_text \/ m.found_in_html,
     error |-> None,
     status_code |-> result.status_code,
     found_in |-> IF m.found_in_text THEN Some("Page Text")
                  ELSE IF m.found_in_html THEN Some("HTML/Links") ELSE None,
     context |-> LimitContext(m.context),
     found_variation |-> m.found_variation,
     warning |-> IF "warning" \in DOMAIN result THEN Some(result.warning) ELSE None]

\* the four search blocks of verify_backlink on a successful fetch result, in turn:
\* the locals after the last one
SearchPage(search_term, search_in_html, result, variations) ==
    LET m1 == TextSearch(MatchStart, variations, result.text_content)
        m2 == IF HtmlGuard(m1, search_in_html)
              THEN HtmlSearch(m1, variations, result.html_content) ELSE m1
        m3 == IF UrlGuard(m2)
              THEN UrlSearch(m2, variations, Lower(result.url)) ELSE m2
    IN  IF LinkGuard(m3, search_in_html)
        THEN LinkCheck(m3, search_term, result.html_content) ELSE m3

\* verify_backlink against script, the environment's answers to the fetch:
\* [ctl |-> "return", value |-> the BacklinkResult] or [ctl |-> "raise", exc |-> ...];
\* events lists the search blocks entered
verify_backlink(url, search_term, search_in_html, case_sensitive, timeout, script) ==
    LET fetched == fetch_page_content(url, timeout, DefaultMaxRetries, script)
        m == SearchPage(search_term, search_in_html, fetched.value,
                        search_variations(search_term, case_sensitive))
    IN  IF fetched.ctl = "raise" THEN Raise(<<>>, fetched.exc)
        ELSE IF ~fetched.value.success
        THEN Return(<<>>, FailureResult(url, search_term, fetched.value))
        ELSE Return(m.steps, MatchResult(url, search_term, fetched.value, m))

(***************************************************************************)
(* Batch orchestrator: verify_multiple_backlinks, and the generator of     *)
(* /verify/stream.  Delays are in tenths of a second.                      *)
(***************************************************************************)
DefaultDelay == 10

DefaultMaxWorkers == 3

MaxWorkersLimit == 10

PoolLimit == 3

\* faulty variant of NonBlank: no url is taken as blank
NonBlank_Always(url) == TRUE

\* url.strip() is truthy
NonBlank(url) == Strip(url) # ""

\* BacklinkRequest.validate_urls, for a non-empty list
validate_urls(v) ==
    LET kept == SelectSeq(v, NonBlank)
    IN  [k \in 1..Len(kept) |-> Strip(kept[k])]

\* a value that Python takes as true: an Optional[str] that is neither None nor ''
Truthy(opt) == opt # None /\ opt[1] # ""

\* faulty variant of ProcessingError: the message of the exception alone
ProcessingError_NoPrefix(url, search_term, exc) ==
    [url |-> url, search_term |-> search_term, verified |-> FALSE,
     error |-> Some(exc.msg), status_code |-> None,
     found_in |-> None, context |-> None, found_variation |-> None, warning |-> None]

\* the BacklinkResult built in the except clauses of verify_multiple_backlinks
ProcessingError(url, search_term, exc) ==
    [url |-> url, search_term |-> search_term, verified |-> FALSE,
     error |-> Some("Processing error: " \o exc.msg), status_code |-> None,
     found_in |-> None, context |-> None, found_variation |-> None, warning |-> None]

\* faulty variant of StreamErrorResult: found_in is set on an unverified result
StreamErrorResult_FoundIn(url, search_term, exc) ==
    [url |-> url, search_term |-> search_term, verified |-> FALSE,
     error |-> Some("Processing error: " \o exc.msg), status_code |-> None,
     found_in |-> Some("HTML/Links"), context |-> None, found_variation |-> None,
     warning |-> None]

\* error_result of generate_results
StreamErrorResult(url, search_term, exc) ==
    [url |-> url, search_term |-> search_term, verified |-> FALSE,
     error |-> Some("Processing error: " \o exc.msg), status_code |-> None,
     found_in |-> None, context |-> None, found_variation |-> None, warning |-> None]

\* faulty variant of EffectiveWorkers: max_workers is not clamped
EffectiveWorkers_Unclamped(self_use_browser, max_workers) ==
    IF self_use_browser THEN 1 ELSE max_workers

\* the local max_workers after lines 703-707
EffectiveWorkers(self_use_browser, max_workers) ==
    Min(IF self_use_browser THEN 1 ELSE max_workers, PoolLimit)

\* time.sleep(random.uniform(lo, lo + 1))
Sleep(lo) == [ev |-> "sleep", lo |-> lo, hi |-> lo + 10]

\* round(num / den * 100, 1) in tenths, the tie going to the even tenth
SuccessRate(num, den) ==
    LET q == (num * 1000) \div den
        r == (num * 1000) % den
    IN  IF 2 * r > den \/ (2 * r = den /\ q % 2 = 1) THEN q + 1 ELSE q

\* faulty variant of Summary: a failed url is left out of the total
Summary_WithoutErrors(results) ==
    LET verified_count == Cardinality({j \in 1..Len(results) : results[j].verified})
        error_count == Cardinality({j \in 1..Len(results) : Truthy(results[j].error)})
        total_count == Len(results) - error_count
    IN  [total_urls |-> total_count,
         verified_count |-> verified_count,
         error_count |-> error_count,
         success_rate |-> IF total_count > 0 THEN SuccessRate(verified_count, total_count)
                          ELSE 0]

\* summary of process_backlinks and of verify_backlinks_sync; success_rate in tenths
Summary(results) ==
    LET verified_count == Cardinality({j \in 1..Len(results) : results[j].verified})
        error_count == Cardinality({j \in 1..Len(results) : Truthy(results[j].error)})
        total_count == Len(results)
    IN  [total_urls |-> total_count,
         verified_count |-> verified_count,
         error_count |-> error_count,
         success_rate |-> IF total_count > 0 THEN SuccessRate(verified_count, total_count)
                          ELSE 0]

\* faulty variant of SyncLimit: the test lets one url more through
SyncLimit_Eleven == 10 + 1

\* the most urls /verify/sync takes
SyncLimit == 10

\* str(uuid.uuid4()) for the n-th job: every call gives an id not given before
Uuid4(n) == "job-" \o ToString(n)

\* the id of the first job
JobId == Uuid4(1)

\* faulty variant of FreshId: every job gets the same id
FreshId_Fixed(store) == "job-1"

\* the id verify_backlinks_async gives to a new job
FreshId(store) == Uuid4(Cardinality(DOMAIN store) + 1)

\* datetime.now()
Now == "now"

\* the record verify_backlinks_async stores for a new job
PendingJob(job_id) ==
    [job_id |-> job_id, status |-> "pending", results |-> None, summary |-> None,
     error |-> None, created_at |-> Some(Now), completed_at |-> None]

\* job_results[job_id].update(...) of process_backlinks once the batch has returned
CompletedJob(job, results) ==
    [job EXCEPT !.status = "completed", !.results = Some(results),
                !.summary = Some(Summary(results)), !.completed_at = Some(Now)]

\* faulty variant of FailedJob: the time of the failure is not recorded
FailedJob_Undated(job, exc) ==
    [job EXCEPT !.status = "error", !.error = Some(exc.msg)]

\* job_results[job_id].update(...) of the except clause of process_backlinks
FailedJob(job, exc) ==
    [job EXCEPT !.status = "error", !.error = Some(exc.msg), !.completed_at = Some(Now)]

\* the BacklinkResponse verify_backlinks_sync returns
SyncResponse(results) ==
    [job_id |-> JobId, status |-> "completed", results |-> Some(results),
     summary |-> Some(Summary(results)), error |-> None, created_at |-> Some(Now),
     completed_at |-> Some(Now)]

\* summary of generate_results
StreamSummary(urls, verified_count, error_count) ==
    [total_urls |-> Len(urls),
     verified_count |-> verified_count,
     error_count |-> error_count,
     success_rate |-> IF Len(urls) > 0 THEN SuccessRate(verified_count, Len(urls)) ELSE 0]

(***************************************************************************)
(* The environment's answers the fetcher is checked against.               *)
(***************************************************************************)
MaxRetriesBound == 3

Timeouts == {DefaultTimeout}

HttpResponse(status, url, content_len, text, soup_text, soup_html) ==
    [kind |-> "response", status |-> status, url |-> url, content_len |-> content_len,
     text |-> text, soup_text |-> soup_text, soup_html |-> soup_html]

\* a response whose body is the text body, for the statuses whose body is not parsed
BodyResponse(status, url, body) == HttpResponse(status, url, Len(body), Some(body), "", "")

\* a response whose body does not decode
UndecodableResponse(status, url, content_len) ==
    HttpResponse(status, url, content_len, None, "", "")

\* a 2xx or 3xx page as BeautifulSoup renders it
PageResponse(status, url, soup_text, soup_html) ==
    HttpResponse(status, url, Len(soup_html), Some(soup_html), soup_text, soup_html)

TimeoutAnswer == [kind |-> "timeout"]

ExceptionAnswer(msg, resp) == [kind |-> "exception", msg |-> msg, resp |-> resp]

Bodies403 ==
    {"", Repeat("x", 40), Repeat("x", 100), Repeat("x", 99) \o DottedI, Repeat("X", 101)}

\* the post-redirect URLs of the answers
FinalUrl == "https://example.com/"

FetchAnswers ==
    {TimeoutAnswer,
     ExceptionAnswer("Connection aborted.", None),
     ExceptionAnswer("Exceeded 30 redirects.", Some(302))}
    \cup {BodyResponse(403, FinalUrl, b) : b \in Bodies403}
    \cup {UndecodableResponse(403, FinalUrl, 200)}
    \cup {BodyResponse(429, FinalUrl, b) : b \in {"", Repeat("x", 101)}}
    \cup {BodyResponse(404, FinalUrl, "not found"), BodyResponse(500, FinalUrl, "")}
    \cup {PageResponse(200, FinalUrl, "Hello World", "<p>Hello World</p>"),
          PageResponse(304, FinalUrl, "", "")}

FetchUrls == {"example.com", "http://heylink.me/u", "https://cdn.cloudflare.test/p",
              "https://[bad"}

\* the pages the match engine is checked against
LinkedPage ==
    PageResponse(200, "https://blog.test/post",
                 "Visit Example.com or Widgets today",
                 "<p>Visit <a href=\"https://www.example.com/\">Example.com</a> or Widgets today</p>")

HrefOnlyPage ==
    PageResponse(200, "https://blog.test/partners",
                 "Our partners",
                 "<a href=\"https://www.example.com/\">Our</a> <a href=\"http://widgets.com\">partners</a>")

RedirectedPage ==
    PageResponse(200, "https://www.example.com/widgets", "Welcome", "<p>Welcome</p>")

LooseLinkPage ==
    PageResponse(200, "https://blog.test/links",
                 "Read more",
                 "<a href=\"https://acme.dev/Examples\">Read more</a>")

UnrelatedPage ==
    PageResponse(200, "https://blog.test/about", "About us", "<p>About us</p>")

ForbiddenPage ==
    BodyResponse(403, "https://blog.test/post",
                 "<p>Visit example.com</p>" \o Repeat("<!-- pad -->", 8))

\* a page without visible text
EmptyTextPage ==
    PageResponse(200, "https://blog.test/app", "", "<div id=\"root\"></div>")

\* a page reached at a url of more than 500 characters
LongUrlPage ==
    PageResponse(200, "https://www.example.com/" \o Repeat("a", 500), "Welcome",
                 "<p>Welcome</p>")

\* a page that names the term in the middle of a long text
LongTextPage ==
    PageResponse(200, "https://blog.test/long",
                 Repeat("Lorem  ", 60) \o "visit Example.com" \o Repeat(" ipsum", 60),
                 "<p>" \o Repeat("Lorem  ", 60) \o "visit Example.com"
                       \o Repeat(" ipsum", 60) \o "</p>")

\* the page of the scenario: the term after "www."
WwwPage ==
    PageResponse(200, "https://blog.test/scenario", "Visit www.Example.com today",
                 "<p>Visit www.Example.com today</p>")

\* a page that names the term in an href only
SponsorPage ==
    PageResponse(200, "https://blog.test/sponsors", "Our sponsors",
                 "<a href=\"https://acmewidgets.io/partner\">Our sponsors</a>")

VerifyPages ==
    {SponsorPage, WwwPage, LinkedPage, HrefOnlyPage, RedirectedPage, LooseLinkPage, UnrelatedPage, ForbiddenPage,
     EmptyTextPage, LongUrlPage, LongTextPage}

\* the answers of the environment to the attempts of one fetch
VerifyScripts ==
    {[i \in 1..DefaultMaxRetries |-> a] :
        a \in VerifyPages \cup {TimeoutAnswer,
                                BodyResponse(403, FinalUrl, ""),
                                BodyResponse(429, FinalUrl, ""),
                                BodyResponse(404, FinalUrl, "not found")}}
    \cup {<<TimeoutAnswer, BodyResponse(500, FinalUrl, ""), LinkedPage>>}

VerifyUrls == {"blog.test/post", "https://[bad"}

SearchTerms ==
    {"example.com", "Example.com", "https://www.example.com/", "acme.io", "widgets",
     "http://", "acmewidgets", "www.acme.io"}

\* the longest list of urls handed to the orchestrator
MaxUrls == 3

\* a page that links the term, padded; a host that times out; a url that urlparse
\* rejects; a blank entry
BatchUrls == {" blog.test/post ", "slow.test", "https://[bad", "  "}

\* max_workers of the requests: sequential, a pool of two, the default
RequestWorkers == {1, 2, DefaultMaxWorkers}

UrlLists == UNION {[1..n -> BatchUrls] : n \in 0..MaxUrls}

\* the longest list /verify/sync takes, and one entry more
LongLists == {[k \in 1..n |-> "slow.test"] : n \in {SyncLimit, SyncLimit + 1}}

BatchSearchTerm == "example.com"

\* the answers of the environment to the fetch of url
BatchAnswers(url) ==
    IF url = "blog.test/post" THEN [i \in 1..DefaultMaxRetries |-> LinkedPage]
    ELSE [i \in 1..DefaultMaxRetries |-> TimeoutAnswer]

\* self.verify_backlink(url, search_term, search_in_html, case_sensitive, debug) for
\* the urls of the batch
PerUrl ==
    [url \in {Strip(u) : u \in {x \in BatchUrls : NonBlank(x)}} |->
        verify_backlink(url, BatchSearchTerm, TRUE, FALSE, DefaultTimeout,
                        BatchAnswers(url))]

(***************************************************************************)
(* State.  f_*: one call of fetch_page_content, iteration by iteration.    *)
(***************************************************************************)
VARIABLES
    f_url,          \* the url argument
    f_timeout,      \* self.timeout
    f_max_retries,  \* the max_retries argument
    f_attempt,      \* the loop variable
    f_pc,           \* "loop", "returned" or "raised"
    f_result,       \* the returned dict, the raised exception, None while looping
    f_log,          \* the sleeps and requests so far, in order
    f_seen,         \* the kind of the environment's answer to each request so far
    f_env           \* the environment's answer to the last request, None before it

fetchVars ==
    <<f_url, f_timeout, f_max_retries, f_attempt, f_pc, f_result, f_log, f_seen, f_env>>

\* v_*: one call of verify_backlink, block by block
VARIABLES
    v_url,             \* the url argument
    v_search_term,     \* the search_term argument
    v_search_in_html,  \* the search_in_html argument
    v_case_sensitive,  \* the case_sensitive argument
    v_pc,              \* "fetch", "text", "html", "url", "links", "build", "done", "raised"
    v_result,          \* the dict fetch_page_content returned, None before
    v_variations,      \* search_variations
    v_m,               \* found_in_text, found_in_html, context, found_variation
    v_ret              \* the BacklinkResult returned or the exception raised, None before

verifyVars ==
    <<v_url, v_search_term, v_search_in_html, v_case_sensitive, v_pc, v_result,
      v_variations, v_m, v_ret>>

\* b_*: one call of verify_multiple_backlinks, or one run of generate_results
VARIABLES
    b_mode,              \* "batch": verify_multiple_backlinks, "stream": generate_results,
                         \* "sync": verify_backlinks_sync, "job": /verify and process_backlinks
    b_urls,              \* the urls argument, request.urls
    b_max_workers,       \* the max_workers argument
    b_self_use_browser,  \* self.use_browser
    b_use_browser,       \* the use_browser argument
    b_pc,                \* "received", "request", "task", "start", "sequential", "pool", "collect", "sleep",
                         \* "stream", "returned", "raised", "finished"
    b_workers,           \* the local max_workers once clamped
    b_i,                 \* how many entries of urls the loop has taken
    b_futures,           \* future_to_url with the state of each future and the order in
                         \* which the calls finished
    b_results,           \* results
    b_origin,            \* for each result the place in urls of the entry it is for
    b_sleeps,            \* the pacing sleeps so far
    b_events,            \* the events generate_results has yielded
    b_counts,            \* verified_count and error_count of generate_results
    b_exc,               \* the exception that left the call, None otherwise
    b_outcome            \* for each url what verify_backlink does on it in this run

batchVars ==
    <<b_mode, b_urls, b_max_workers, b_self_use_browser, b_use_browser, b_pc, b_workers,
      b_i, b_futures, b_results, b_origin, b_sleeps, b_events, b_counts, b_exc,
      b_outcome>>

\* the job store and the answer of the endpoint
VARIABLES
    job_results,  \* job_results: the record of each job, by job id
    a_response,   \* what the endpoint has answered, None before
    u_file,       \* the file sent to /upload-file, None before
    a_job,        \* job_id of the call of verify_backlinks_async or process_backlinks
                  \* made last, "" before
    a_tasks       \* the tasks added and not started: the request of each, by job id

apiVars == <<job_results, a_response, u_file, a_job, a_tasks>>

vars == <<fetchVars, verifyVars, batchVars, apiVars>>

\* no request to an endpoint yet
ApiIdle ==
    /\ job_results = <<>>
    /\ a_response = None
    /\ u_file = None
    /\ a_job = ""
    /\ a_tasks = <<>>

\* no batch in progress
BatchIdle ==
    /\ b_mode = "idle"
    /\ b_urls = <<>>
    /\ b_max_workers = DefaultMaxWorkers
    /\ b_self_use_browser = FALSE
    /\ b_use_browser = FALSE
    /\ b_pc = "idle"
    /\ b_workers = 0
    /\ b_i = 0
    /\ b_futures = <<>>
    /\ b_results = <<>>
    /\ b_origin = <<>>
    /\ b_sleeps = <<>>
    /\ b_events = <<>>
    /\ b_counts = [verified |-> 0, error |-> 0]
    /\ b_exc = None
    /\ b_outcome = <<>>
    /\ ApiIdle


\* no call of verify_backlink in progress
VerifyIdle ==
    /\ v_url = ""
    /\ v_search_term = ""
    /\ v_search_in_html = TRUE
    /\ v_case_sensitive = FALSE
    /\ v_pc = "idle"
    /\ v_result = None
    /\ v_variations = <<>>
    /\ v_m = MatchStart
    /\ v_ret = None


FetchInit ==
    /\ f_url \in FetchUrls
    /\ f_timeout \in Timeouts
    /\ f_max_retries \in 0..MaxRetriesBound
    /\ f_attempt = 0
    /\ f_pc = "loop"
    /\ f_result = None
    /\ f_log = <<>>
    /\ f_seen = <<>>
    /\ f_env = None
    /\ VerifyIdle
    /\ BatchIdle

\* no call of fetch_page_content in progress
FetchIdle ==
    /\ f_url = ""
    /\ f_timeout = DefaultTimeout
    /\ f_max_retries = DefaultMaxRetries
    /\ f_attempt = 0
    /\ f_pc = "idle"
    /\ f_result = None
    /\ f_log = <<>>
    /\ f_seen = <<>>
    /\ f_env = None

\* "timeout", "exception" or the status of the response
AnswerTag(env) == IF env.kind = "response" THEN ToString(env.status) ELSE env.kind

FetchLooping == f_pc = "loop" /\ f_attempt < f_max_retries

\* the effect of one iteration on the state
FetchApply(env, issued) ==
    LET step == fetch_attempt(normalize_url(f_url), f_timeout, f_attempt, f_max_retries, env)
    IN  /\ f_log' = f_log \o step.events
        /\ f_seen' = IF issued THEN Append(f_seen, AnswerTag(env)) ELSE f_seen
        /\ f_env' = IF issued THEN Some(env) ELSE f_env
        /\ f_attempt' = IF step.ctl = "continue" THEN f_attempt + 1 ELSE f_attempt
        /\ f_pc' = CASE step.ctl = "continue" -> "loop"
                     [] step.ctl = "return" -> "returned"
                     [] step.ctl = "raise" -> "raised"
        /\ f_result' = CASE step.ctl = "continue" -> None
                         [] step.ctl = "return" -> step.value
                         [] step.ctl = "raise" -> step.exc
        /\ UNCHANGED <<f_url, f_timeout, f_max_retries>>
        /\ UNCHANGED <<verifyVars, batchVars, apiVars>>

FetchAnswered(S) ==
    /\ FetchLooping
    /\ ~UrlparseRaises(normalize_url(f_url))
    /\ \E env \in S : FetchApply(env, TRUE)

FetchUrlparseError ==
    /\ FetchLooping
    /\ UrlparseRaises(normalize_url(f_url))
    /\ FetchApply(TimeoutAnswer, FALSE)

FetchTimeout == FetchAnswered({a \in FetchAnswers : a.kind = "timeout"})

FetchException == FetchAnswered({a \in FetchAnswers : a.kind = "exception"})

Fetch403 == FetchAnswered({a \in FetchAnswers : a.kind = "response" /\ a.status = 403})

Fetch429 == FetchAnswered({a \in FetchAnswers : a.kind = "response" /\ a.status = 429})

FetchHttpError ==
    FetchAnswered({a \in FetchAnswers : a.kind = "response" /\ a.status \notin {403, 429}
                                    /\ RaisesForStatus(a.status)})

FetchPage ==
    FetchAnswered({a \in FetchAnswers : a.kind = "response" /\ a.status \notin {403, 429}
                                    /\ ~RaisesForStatus(a.status)})

\* the return after the loop
FetchFallThrough ==
    /\ f_pc = "loop"
    /\ f_attempt >= f_max_retries
    /\ f_pc' = "returned"
    /\ f_result' = FailureExhausted(normalize_url(f_url), f_max_retries)
    /\ UNCHANGED <<f_url, f_timeout, f_max_retries, f_attempt, f_log, f_seen, f_env>>
    /\ UNCHANGED <<verifyVars, batchVars, apiVars>>

FetchNext ==
    \/ FetchUrlparseError
    \/ FetchTimeout
    \/ FetchException
    \/ Fetch403
    \/ Fetch429
    \/ FetchHttpError
    \/ FetchPage
    \/ FetchFallThrough

SpecFetch == FetchInit /\ [][FetchNext]_vars

(***************************************************************************)
(* One call of verify_backlink.                                            *)
(***************************************************************************)
VerifyInit ==
    /\ v_url \in VerifyUrls
    /\ v_search_term \in SearchTerms
    /\ v_search_in_html \in BOOLEAN
    /\ v_case_sensitive \in BOOLEAN
    /\ v_pc = "fetch"
    /\ v_result = None
    /\ v_variations = <<>>
    /\ v_m = MatchStart
    /\ v_ret = None
    /\ FetchIdle
    /\ BatchIdle

VerifyArgs == <<v_url, v_search_term, v_search_in_html, v_case_sensitive>>

\* result = self.fetch_page_content(url), answered by script
Fetched(script) == fetch_page_content(v_url, DefaultTimeout, DefaultMaxRetries, script)

\* the fetch raises: the exception leaves verify_backlink
VerifyFetchRaises ==
    /\ v_pc = "fetch"
    /\ \E script \in VerifyScripts :
          /\ Fetched(script).ctl = "raise"
          /\ v_ret' = Fetched(script).exc
    /\ v_pc' = "raised"
    /\ UNCHANGED <<VerifyArgs, v_result, v_variations, v_m, fetchVars, batchVars, apiVars>>

\* if not result['success']: return BacklinkResult(...)
VerifyFetchFailed ==
    /\ v_pc = "fetch"
    /\ \E script \in VerifyScripts :
          /\ Fetched(script).ctl = "return"
          /\ ~Fetched(script).value.success
          /\ v_result' = Some(Fetched(script).value)
          /\ v_ret' = FailureResult(v_url, v_search_term, Fetched(script).value)
    /\ v_pc' = "done"
    /\ UNCHANGED <<VerifyArgs, v_variations, v_m, fetchVars, batchVars, apiVars>>

\* the fetch succeeded: the variations are generated
VerifyFetchSucceeded ==
    /\ v_pc = "fetch"
    /\ \E script \in VerifyScripts :
          /\ Fetched(script).ctl = "return"
          /\ Fetched(script).value.success
          /\ v_result' = Some(Fetched(script).value)
    /\ v_variations' = search_variations(v_search_term, v_case_sensitive)
    /\ v_pc' = "text"
    /\ UNCHANGED <<VerifyArgs, v_m, v_ret, fetchVars, batchVars, apiVars>>

VerifyTextSearch ==
    /\ v_pc = "text"
    /\ v_m' = TextSearch(v_m, v_variations, v_result[1].text_content)
    /\ v_pc' = "html"
    /\ UNCHANGED <<VerifyArgs, v_result, v_variations, v_ret, fetchVars, batchVars, apiVars>>

VerifyHtmlSearch ==
    /\ v_pc = "html"
    /\ v_m' = IF HtmlGuard(v_m, v_search_in_html)
              THEN HtmlSearch(v_m, v_variations, v_result[1].html_content)
              ELSE v_m
    /\ v_pc' = "url"
    /\ UNCHANGED <<VerifyArgs, v_result, v_variations, v_ret, fetchVars, batchVars, apiVars>>

VerifyUrlSearch ==
    /\ v_pc = "url"
    /\ v_m' = IF UrlGuard(v_m)
              THEN UrlSearch(v_m, v_variations, Lower(v_result[1].url))
              ELSE v_m
    /\ v_pc' = "links"
    /\ UNCHANGED <<VerifyArgs, v_result, v_variations, v_ret, fetchVars, batchVars, apiVars>>

VerifyLinkCheck ==
    /\ v_pc = "links"
    /\ v_m' = IF LinkGuard(v_m, v_search_in_html)
              THEN LinkCheck(v_m, v_search_term, v_result[1].html_content)
              ELSE v_m
    /\ v_pc' = "build"
    /\ UNCHANGED <<VerifyArgs, v_result, v_variations, v_ret, fetchVars, batchVars, apiVars>>

\* return BacklinkResult(...)
VerifyReturn ==
    /\ v_pc = "build"
    /\ v_ret' = MatchResult(v_url, v_search_term, v_result[1], v_m)
    /\ v_pc' = "done"
    /\ UNCHANGED <<VerifyArgs, v_result, v_variations, v_m, fetchVars, batchVars, apiVars>>

VerifyNext ==
    \/ VerifyFetchRaises
    \/ VerifyFetchFailed
    \/ VerifyFetchSucceeded
    \/ VerifyTextSearch
    \/ VerifyHtmlSearch
    \/ VerifyUrlSearch
    \/ VerifyLinkCheck
    \/ VerifyReturn

SpecVerify == VerifyInit /\ [][VerifyNext]_vars

(***************************************************************************)
(* One call of verify_multiple_backlinks (sequential loop or thread pool), *)
(* or one run of generate_results.                                         *)
(***************************************************************************)
BatchStarting ==
    /\ b_pc = "start"
    /\ b_workers = 0
    /\ b_i = 0
    /\ b_futures = <<>>
    /\ b_results = <<>>
    /\ b_origin = <<>>
    /\ b_sleeps = <<>>
    /\ b_events = <<>>
    /\ b_counts = [verified |-> 0, error |-> 0]
    /\ b_exc = None
    /\ FetchIdle
    /\ VerifyIdle
    /\ ApiIdle

\* a call of verify_multiple_backlinks on any list
BatchInit ==
    /\ b_outcome = PerUrl
    /\ b_mode = "batch"
    /\ b_urls \in UrlLists
    /\ b_max_workers \in 1..MaxWorkersLimit
    /\ b_self_use_browser \in BOOLEAN
    /\ b_use_browser \in BOOLEAN
    /\ BatchStarting

\* a request to /verify/stream: the urls are validated, the verifier is built from the
\* request
StreamInit ==
    /\ b_outcome = PerUrl
    /\ b_mode = "stream"
    /\ b_urls \in {validate_urls(v) : v \in UrlLists \ {<<>>}} \cup LongLists
    /\ b_max_workers = DefaultMaxWorkers
    /\ b_use_browser \in BOOLEAN
    /\ b_self_use_browser = b_use_browser
    /\ BatchStarting

\* a request to /verify/sync or to /verify has come in, still to be validated; the job
\* store is empty
ApiInit ==
    /\ b_outcome = PerUrl
    /\ b_mode \in {"sync", "job"}
    /\ b_urls \in UrlLists \cup LongLists
    /\ b_max_workers \in RequestWorkers
    /\ b_urls \in LongLists => b_max_workers = 1
    /\ b_use_browser \in BOOLEAN
    /\ b_self_use_browser = b_use_browser
    /\ b_pc = "received"
    /\ b_workers = 0
    /\ b_i = 0
    /\ b_futures = <<>>
    /\ b_results = <<>>
    /\ b_origin = <<>>
    /\ b_sleeps = <<>>
    /\ b_events = <<>>
    /\ b_counts = [verified |-> 0, error |-> 0]
    /\ b_exc = None
    /\ FetchIdle
    /\ VerifyIdle
    /\ ApiIdle

BatchArgs == <<b_mode, b_urls, b_max_workers, b_use_browser, b_outcome>>

OtherVars == <<fetchVars, verifyVars, apiVars>>

\* the entry of urls the loop takes next
NextUrl == b_urls[b_i + 1]

\* self.init_browser() does not exist
BatchInitBrowserFails ==
    /\ b_mode \in {"batch", "sync", "job"} /\ b_pc = "start"
    /\ b_use_browser /\ ~b_self_use_browser
    /\ b_self_use_browser' = TRUE
    /\ b_exc' = [type |-> "AttributeError",
                 msg |-> "'BacklinksVerifier' object has no attribute 'init_browser'"]
    /\ b_pc' = "raised"
    /\ UNCHANGED <<BatchArgs, b_workers, b_i, b_futures, b_results, b_origin, b_sleeps,
                   b_events, b_counts, OtherVars>>

\* the clamping of max_workers and the choice of the path
BatchStart ==
    /\ b_mode \in {"batch", "sync", "job"} /\ b_pc = "start"
    /\ ~(b_use_browser /\ ~b_self_use_browser)
    /\ b_workers' = EffectiveWorkers(b_self_use_browser, b_max_workers)
    /\ b_pc' = IF b_workers' = 1 THEN "sequential" ELSE "pool"
    /\ UNCHANGED <<BatchArgs, b_self_use_browser, b_i, b_futures, b_results, b_origin,
                   b_sleeps, b_events, b_counts, b_exc, OtherVars>>

\* sequential loop: a blank entry
SequentialSkipBlank ==
    /\ b_pc = "sequential" /\ b_i < Len(b_urls)
    /\ ~NonBlank(NextUrl)
    /\ b_i' = b_i + 1
    /\ UNCHANGED <<BatchArgs, b_self_use_browser, b_pc, b_workers, b_futures, b_results,
                   b_origin, b_sleeps, b_events, b_counts, b_exc, OtherVars>>

\* sequential loop: result is appended; then the delay
SequentialAppend(result) ==
    /\ b_results' = Append(b_results, result)
    /\ b_origin' = Append(b_origin, b_i + 1)
    /\ b_sleeps' = Append(b_sleeps, Sleep(DefaultDelay))
    /\ b_i' = b_i + 1
    /\ UNCHANGED <<BatchArgs, b_self_use_browser, b_pc, b_workers, b_futures, b_events,
                   b_counts, b_exc, OtherVars>>

\* sequential loop: verify_backlink returns
SequentialVerifyReturns ==
    /\ b_pc = "sequential" /\ b_i < Len(b_urls)
    /\ NonBlank(NextUrl)
    /\ b_outcome[Strip(NextUrl)].ctl = "return"
    /\ SequentialAppend(b_outcome[Strip(NextUrl)].value)

\* sequential loop: verify_backlink raises, the except clause builds the result
SequentialVerifyRaises ==
    /\ b_pc = "sequential" /\ b_i < Len(b_urls)
    /\ NonBlank(NextUrl)
    /\ b_outcome[Strip(NextUrl)].ctl = "raise"
    /\ SequentialAppend(ProcessingError(Strip(NextUrl), BatchSearchTerm,
                                        b_outcome[Strip(NextUrl)].exc))

\* pool path: the comprehension that fills future_to_url meets a blank entry
PoolSkipBlank ==
    /\ b_pc = "pool" /\ b_i < Len(b_urls)
    /\ ~NonBlank(NextUrl)
    /\ b_i' = b_i + 1
    /\ UNCHANGED <<BatchArgs, b_self_use_browser, b_pc, b_workers, b_futures, b_results,
                   b_origin, b_sleeps, b_events, b_counts, b_exc, OtherVars>>

\* pool path: executor.submit(self.verify_backlink, url.strip(), ...)
PoolSubmit ==
    /\ b_pc = "pool" /\ b_i < Len(b_urls)
    /\ NonBlank(NextUrl)
    /\ b_futures' = Append(b_futures, [place |-> b_i + 1, url |-> Strip(NextUrl),
                                       state |-> "queued", seq |-> 0, early |-> FALSE])
    /\ b_i' = b_i + 1
    /\ UNCHANGED <<BatchArgs, b_self_use_browser, b_pc, b_workers, b_results, b_origin,
                   b_sleeps, b_events, b_counts, b_exc, OtherVars>>

FuturesIn(state) == {k \in 1..Len(b_futures) : b_futures[k].state = state}

\* faulty variant of WorkerStart: no call is started while the collecting thread sleeps
WorkerStart_NotInSleep ==
    /\ b_pc \in {"pool", "collect"}
    /\ Cardinality(FuturesIn("running")) < b_workers
    /\ \E k \in FuturesIn("queued") :
          /\ \A j \in FuturesIn("queued") : k <= j
          /\ b_futures' = [b_futures EXCEPT ![k].state = "running"]
    /\ UNCHANGED <<BatchArgs, b_self_use_browser, b_pc, b_workers, b_i, b_results,
                   b_origin, b_sleeps, b_events, b_counts, b_exc, OtherVars>>

\* a thread of the executor takes the oldest queued call
WorkerStart ==
    /\ b_pc \in {"pool", "collect", "sleep"}
    /\ Cardinality(FuturesIn("running")) < b_workers
    /\ \E k \in FuturesIn("queued") :
          /\ \A j \in FuturesIn("queued") : k <= j
          /\ b_futures' = [b_futures EXCEPT ![k].state = "running"]
    /\ UNCHANGED <<BatchArgs, b_self_use_browser, b_pc, b_workers, b_i, b_results,
                   b_origin, b_sleeps, b_events, b_counts, b_exc, OtherVars>>

\* verify_backlink returns or raises in its thread: the future is done
WorkerFinish ==
    /\ b_pc \in {"pool", "collect", "sleep"}
    /\ \E k \in FuturesIn("running") :
          b_futures' = [b_futures EXCEPT
                           ![k].state = "done",
                           ![k].seq = 1 + Cardinality(FuturesIn("done") \cup
                                                      FuturesIn("collected"))]
    /\ UNCHANGED <<BatchArgs, b_self_use_browser, b_pc, b_workers, b_i, b_results,
                   b_origin, b_sleeps, b_events, b_counts, b_exc, OtherVars>>

\* pool path: every call is submitted, as_completed(future_to_url) starts: the futures
\* finished by now are put in a set, to be yielded first
PoolAsCompleted ==
    /\ b_pc = "pool" /\ b_i = Len(b_urls)
    /\ b_futures' = [k \in 1..Len(b_futures) |->
                        [b_futures[k] EXCEPT !.early = (b_futures[k].state = "done")]]
    /\ b_pc' = "collect"
    /\ UNCHANGED <<BatchArgs, b_self_use_browser, b_workers, b_i, b_results, b_origin,
                   b_sleeps, b_events, b_counts, b_exc, OtherVars>>

\* the futures as_completed may yield next: one of those finished before it started,
\* in the order of a set; once these are yielded, the one that finished first
Yieldable ==
    LET done == FuturesIn("done")
        early == {k \in done : b_futures[k].early}
    IN  IF early # {} THEN early
        ELSE {k \in done : \A j \in done : b_futures[k].seq <= b_futures[j].seq}

\* pool path: as_completed has yielded future k; result is appended; then the
\* collecting thread enters the delay that grows with i
PoolAppend(k, result) ==
    /\ b_results' = Append(b_results, result)
    /\ b_origin' = Append(b_origin, b_futures[k].place)
    /\ b_sleeps' = Append(b_sleeps, Sleep(DefaultDelay + Len(b_results)))
    /\ b_futures' = [b_futures EXCEPT ![k].state = "collected", ![k].seq = 0,
                                      ![k].early = FALSE]
    /\ b_pc' = "sleep"
    /\ UNCHANGED <<BatchArgs, b_self_use_browser, b_workers, b_i, b_events,
                   b_counts, b_exc, OtherVars>>

\* pool path: time.sleep returns, the loop asks as_completed for the next future
PoolSleepOver ==
    /\ b_pc = "sleep"
    /\ b_pc' = "collect"
    /\ UNCHANGED <<BatchArgs, b_self_use_browser, b_workers, b_i, b_futures, b_results,
                   b_origin, b_sleeps, b_events, b_counts, b_exc, OtherVars>>

\* pool path: future.result() returns
PoolCollectResult ==
    /\ b_pc = "collect"
    /\ \E k \in Yieldable :
          /\ b_outcome[b_futures[k].url].ctl = "return"
          /\ PoolAppend(k, b_outcome[b_futures[k].url].value)

\* pool path: future.result() raises, the except clause builds the result
PoolCollectRaised ==
    /\ b_pc = "collect"
    /\ \E k \in Yieldable :
          /\ b_outcome[b_futures[k].url].ctl = "raise"
          /\ PoolAppend(k, ProcessingError(b_futures[k].url, BatchSearchTerm,
                                           b_outcome[b_futures[k].url].exc))

\* faulty variant of BatchReturn: the executor is left without waiting for the calls
\* still queued or running
BatchReturn_Early ==
    /\ b_pc \in {"sequential", "collect"}
    /\ b_i = Len(b_urls)
    /\ b_pc' = "returned"
    /\ UNCHANGED <<BatchArgs, b_self_use_browser, b_workers, b_i, b_futures, b_results,
                   b_origin, b_sleeps, b_events, b_counts, b_exc, OtherVars>>

\* both loops are over: close_browser finds no driver, results is returned
BatchReturn ==
    /\ b_pc \in {"sequential", "collect"}
    /\ b_i = Len(b_urls)
    /\ FuturesIn("collected") = 1..Len(b_futures)
    /\ b_pc' = "returned"
    /\ UNCHANGED <<BatchArgs, b_self_use_browser, b_workers, b_i, b_futures, b_results,
                   b_origin, b_sleeps, b_events, b_counts, b_exc, OtherVars>>

\* faulty variant of StreamPlace: the loop jumps to the last entry
StreamPlace_Last ==
    LET rest == {j \in (b_i + 1)..Len(b_urls) : NonBlank(b_urls[j])}
    IN  IF rest = {} THEN 0 ELSE CHOOSE j \in rest : \A k \in rest : j >= k

\* the place in urls of the next entry that is not blank, 0 when there is none
StreamPlace ==
    LET rest == {j \in (b_i + 1)..Len(b_urls) : NonBlank(b_urls[j])}
    IN  IF rest = {} THEN 0 ELSE CHOOSE j \in rest : \A k \in rest : j <= k

\* generate_results yields the initial status
StreamStart ==
    /\ b_mode = "stream" /\ b_pc = "start"
    /\ b_events' = <<[status |-> "started", total_urls |-> Len(b_urls)]>>
    /\ b_pc' = "stream"
    /\ UNCHANGED <<BatchArgs, b_self_use_browser, b_workers, b_i, b_futures, b_results,
                   b_origin, b_sleeps, b_counts, b_exc, OtherVars>>

\* generate_results yields the processing status and the result of the entry at
\* StreamPlace
StreamYield(result) ==
    /\ b_results' = Append(b_results, result)
    /\ b_origin' = Append(b_origin, StreamPlace)
    /\ b_events' = b_events \o
          <<[status |-> "processing", current_url |-> b_urls[StreamPlace],
             progress |-> StreamPlace, total |-> Len(b_urls)],
            [type |-> "result", result |-> result, progress |-> StreamPlace]>>
    /\ b_i' = StreamPlace
    /\ UNCHANGED <<BatchArgs, b_self_use_browser, b_pc, b_workers, b_futures, b_exc,
                   OtherVars>>

\* one iteration of the loop of generate_results: verify_backlink returns
StreamVerifyReturns ==
    /\ b_pc = "stream" /\ StreamPlace # 0
    /\ LET outcome == b_outcome[Strip(b_urls[StreamPlace])]
       IN  /\ outcome.ctl = "return"
           /\ b_counts' =
                 [verified |-> b_counts.verified
                               + (IF outcome.value.verified THEN 1 ELSE 0),
                  error |-> b_counts.error
                            + (IF Truthy(outcome.value.error) THEN 1 ELSE 0)]
           /\ b_sleeps' = Append(b_sleeps, Sleep(DefaultDelay))
           /\ StreamYield(outcome.value)

\* one iteration of the loop of generate_results: verify_backlink raises
StreamVerifyRaises ==
    /\ b_pc = "stream" /\ StreamPlace # 0
    /\ LET url == Strip(b_urls[StreamPlace])
       IN  /\ b_outcome[url].ctl = "raise"
           /\ b_counts' = [b_counts EXCEPT !.error = @ + 1]
           /\ UNCHANGED b_sleeps
           /\ StreamYield(StreamErrorResult(url, BatchSearchTerm, b_outcome[url].exc))

\* the loop is over: the summary is yielded
StreamComplete ==
    /\ b_pc = "stream" /\ StreamPlace = 0
    /\ b_events' = Append(b_events,
                          [status |-> "completed",
                           summary |-> StreamSummary(b_urls, b_counts.verified,
                                                     b_counts.error),
                           all_results |-> b_results])
    /\ b_i' = Len(b_urls)
    /\ b_pc' = "returned"
    /\ UNCHANGED <<BatchArgs, b_self_use_browser, b_workers, b_futures, b_results,
                   b_origin, b_sleeps, b_counts, b_exc, OtherVars>>

(***************************************************************************)
(* The endpoints /verify/sync and /verify, and the background task         *)
(* process_backlinks, around one call of verify_multiple_backlinks.        *)
(***************************************************************************)
BatchState ==
    <<BatchArgs, b_self_use_browser, b_workers, b_i, b_futures, b_results, b_origin,
      b_sleeps, b_events, b_counts>>

\* the request has no url at all: BacklinkRequest is not built, the answer is 422
RequestRejected ==
    /\ b_mode \in {"sync", "job"} /\ b_pc = "received"
    /\ Len(b_urls) = 0
    /\ a_response' = Some([status_code |-> 422, detail |-> "At least one URL is required"])
    /\ b_pc' = "finished"
    /\ UNCHANGED <<BatchState, b_exc, job_results, u_file, a_job, a_tasks, fetchVars, verifyVars>>

\* BacklinkRequest is built: request.urls is what validate_urls returns
RequestValidated ==
    /\ b_mode \in {"sync", "job"} /\ b_pc = "received"
    /\ Len(b_urls) > 0
    /\ b_urls' = validate_urls(b_urls)
    /\ b_pc' = "request"
    /\ UNCHANGED <<b_mode, b_max_workers, b_use_browser, b_outcome, b_self_use_browser,
                   b_workers, b_i, b_futures, b_results, b_origin, b_sleeps, b_events,
                   b_counts, b_exc, apiVars, fetchVars, verifyVars>>

\* POST /verify: the job is stored as pending, the task is scheduled, the record is
\* the answer
verify_backlinks_async ==
    /\ b_mode = "job" /\ b_pc = "request"
    /\ LET job_id == FreshId(job_results)
       IN  /\ job_results' = [j \in DOMAIN job_results \cup {job_id} |->
                                IF j = job_id THEN PendingJob(job_id) ELSE job_results[j]]
           /\ a_tasks' = [j \in DOMAIN a_tasks \cup {job_id} |->
                            IF j = job_id THEN b_urls ELSE a_tasks[j]]
           /\ a_response' = Some(PendingJob(job_id))
           /\ a_job' = job_id
    /\ b_pc' = "task"
    /\ UNCHANGED <<BatchState, b_exc, u_file, fetchVars, verifyVars>>

\* the event loop is between two coroutines: process_backlinks is a coroutine without
\* an await, so from its first statement to its last the loop runs nothing else
EventLoopFree == b_pc \in {"task", "finished"}

\* process_backlinks(job_id, request) starts, for one of the tasks added:
\* job_results[job_id]['status'] = 'processing'
ProcessStart ==
    /\ b_mode = "job" /\ EventLoopFree
    /\ \E job_id \in DOMAIN a_tasks :
          /\ job_results' = [job_results EXCEPT ![job_id].status = "processing"]
          /\ a_job' = job_id
          /\ b_urls' = a_tasks[job_id]
          /\ a_tasks' = [j \in DOMAIN a_tasks \ {job_id} |-> a_tasks[j]]
    /\ b_pc' = "start"
    /\ b_workers' = 0
    /\ b_i' = 0
    /\ b_futures' = <<>>
    /\ b_results' = <<>>
    /\ b_origin' = <<>>
    /\ b_sleeps' = <<>>
    /\ b_exc' = None
    /\ UNCHANGED <<b_mode, b_max_workers, b_use_browser, b_outcome, b_self_use_browser,
                   b_events, b_counts, a_response, u_file, fetchVars, verifyVars>>

\* POST /verify/sync: no more than 10 urls
SyncAccept ==
    /\ b_mode = "sync" /\ b_pc = "request"
    /\ Len(b_urls) <= SyncLimit
    /\ b_pc' = "start"
    /\ UNCHANGED <<BatchState, b_exc, apiVars, fetchVars, verifyVars>>

\* POST /verify/sync: more than 10 urls, HTTPException(400)
SyncRejects ==
    /\ b_mode = "sync" /\ b_pc = "request"
    /\ Len(b_urls) > SyncLimit
    /\ a_response' =
          Some([status_code |-> 400,
                detail |-> "Synchronous verification limited to 10 URLs. "
                           \o "Use async endpoint for larger batches."])
    /\ b_pc' = "finished"
    /\ UNCHANGED <<BatchState, b_exc, job_results, u_file, a_job, a_tasks, fetchVars, verifyVars>>

\* BacklinksVerifier(...) raises: the Retry of the installed urllib3 does not know
\* allowed_methods
VerifierRaises ==
    /\ b_mode \in {"sync", "job"} /\ b_pc = "start"
    /\ b_exc' = [type |-> "TypeError",
                 msg |-> "__init__() got an unexpected keyword argument 'allowed_methods'"]
    /\ b_pc' = "raised"
    /\ UNCHANGED <<BatchState, apiVars, fetchVars, verifyVars>>

\* process_backlinks: the batch has returned, the summary is computed and the job is
\* completed
JobCompleted ==
    /\ b_mode = "job" /\ b_pc = "returned"
    /\ job_results' = [job_results EXCEPT ![a_job] = CompletedJob(@, b_results)]
    /\ b_pc' = "finished"
    /\ UNCHANGED <<BatchState, b_exc, a_response, u_file, a_job, a_tasks, fetchVars, verifyVars>>

\* process_backlinks: except Exception as e
JobFailed ==
    /\ b_mode = "job" /\ b_pc = "raised"
    /\ job_results' = [job_results EXCEPT ![a_job] = FailedJob(@, b_exc)]
    /\ b_pc' = "finished"
    /\ UNCHANGED <<BatchState, b_exc, a_response, u_file, a_job, a_tasks, fetchVars, verifyVars>>

\* verify_backlinks_sync: the batch has returned, the report is the answer
SyncResponds ==
    /\ b_mode = "sync" /\ b_pc = "returned"
    /\ a_response' = Some(SyncResponse(b_results))
    /\ b_pc' = "finished"
    /\ UNCHANGED <<BatchState, b_exc, job_results, u_file, a_job, a_tasks, fetchVars, verifyVars>>

\* verify_backlinks_sync: except Exception as e: HTTPException(500, str(e))
SyncFails ==
    /\ b_mode = "sync" /\ b_pc = "raised"
    /\ a_response' = Some([status_code |-> 500, detail |-> b_exc.msg])
    /\ b_pc' = "finished"
    /\ UNCHANGED <<BatchState, b_exc, job_results, u_file, a_job, a_tasks, fetchVars, verifyVars>>

\* GET /status/{job_id} for a job submitted: the record is the answer
get_job_status ==
    /\ b_mode = "job" /\ EventLoopFree
    /\ \E job_id \in DOMAIN job_results : a_response' = Some(job_results[job_id])
    /\ UNCHANGED <<BatchState, b_pc, b_exc, job_results, u_file, a_job, a_tasks, fetchVars, verifyVars>>

\* the most jobs submitted to one server
MaxJobs == 2

\* the lists of urls of the requests to /verify of a server with several jobs
JobLists == {<<"slow.test">>, <<" blog.test/post ">>, <<"https://[bad", " blog.test/post ">>}

\* the first request to /verify of a server that takes several: one thread, no browser
JobsInit ==
    /\ b_outcome = PerUrl
    /\ b_mode = "job"
    /\ b_urls \in JobLists
    /\ b_max_workers = 1
    /\ b_use_browser = FALSE
    /\ b_self_use_browser = FALSE
    /\ b_pc = "received"
    /\ b_workers = 0
    /\ b_i = 0
    /\ b_futures = <<>>
    /\ b_results = <<>>
    /\ b_origin = <<>>
    /\ b_sleeps = <<>>
    /\ b_events = <<>>
    /\ b_counts = [verified |-> 0, error |-> 0]
    /\ b_exc = None
    /\ FetchIdle
    /\ VerifyIdle
    /\ ApiIdle

\* another request to /verify comes in while the event loop is free: after a job was
\* submitted, before or after its task has run
NextRequest ==
    /\ b_mode = "job" /\ EventLoopFree
    /\ Cardinality(DOMAIN job_results) < MaxJobs
    /\ b_urls' \in JobLists
    /\ b_pc' = "received"
    /\ UNCHANGED <<b_mode, b_max_workers, b_use_browser, b_outcome, b_self_use_browser,
                   b_workers, b_i, b_futures, b_results, b_origin, b_sleeps, b_events,
                   b_counts, b_exc, apiVars, fetchVars, verifyVars>>

\* the steps of a server that takes several requests to /verify
JobsNext ==
    \/ NextRequest
    \/ RequestValidated
    \/ verify_backlinks_async
    \/ get_job_status
    \/ ProcessStart
    \/ VerifierRaises
    \/ JobCompleted
    \/ JobFailed
    \/ BatchStart
    \/ SequentialVerifyReturns
    \/ SequentialVerifyRaises
    \/ BatchReturn

SpecJobs == JobsInit /\ [][JobsNext]_vars

\* the steps of a request to /verify/sync, /verify or /verify/stream; request.urls
\* is validated and holds no blank entry for the loops to skip
ApiNext ==
    \/ RequestRejected
    \/ RequestValidated
    \/ verify_backlinks_async
    \/ get_job_status
    \/ ProcessStart
    \/ SyncAccept
    \/ SyncRejects
    \/ VerifierRaises
    \/ JobCompleted
    \/ JobFailed
    \/ SyncResponds
    \/ SyncFails
    \/ BatchStart
    \/ SequentialVerifyReturns
    \/ SequentialVerifyRaises
    \/ PoolSubmit
    \/ WorkerStart
    \/ WorkerFinish
    \/ PoolAsCompleted
    \/ PoolCollectResult
    \/ PoolCollectRaised
    \/ PoolSleepOver
    \/ BatchReturn
    \/ StreamStart
    \/ StreamVerifyReturns
    \/ StreamVerifyRaises
    \/ StreamComplete

\* the steps of one call of verify_multiple_backlinks
verify_multiple_backlinks ==
    \/ BatchInitBrowserFails
    \/ BatchStart
    \/ SequentialSkipBlank
    \/ SequentialVerifyReturns
    \/ SequentialVerifyRaises
    \/ PoolSkipBlank
    \/ PoolSubmit
    \/ WorkerStart
    \/ WorkerFinish
    \/ PoolAsCompleted
    \/ PoolCollectResult
    \/ PoolCollectRaised
    \/ PoolSleepOver
    \/ BatchReturn

BatchNext ==
    \/ verify_multiple_backlinks
    \/ StreamStart
    \/ StreamVerifyReturns
    \/ StreamVerifyRaises
    \/ StreamComplete

SpecBatch == (BatchInit \/ StreamInit) /\ [][BatchNext]_vars

\* a call of verify_multiple_backlinks, with one, two or three workers asked for, in
\* which every call that is started returns: a thread that can run does run, a loop
\* that can go on does go on
BatchFairInit == BatchInit /\ b_max_workers \in RequestWorkers

\* a call of verify_multiple_backlinks with one, two or three workers asked for
SpecPool == BatchFairInit /\ [][verify_multiple_backlinks]_vars

SpecBatchFair ==
    BatchFairInit /\ [][verify_multiple_backlinks]_vars /\ WF_vars(verify_multiple_backlinks)

\* the three invocation modes: /verify/sync, /verify with its background task, and
\* /verify/stream
SpecApi == (ApiInit \/ StreamInit) /\ [][ApiNext]_vars

\* every way a result is reported: by verify_backlink alone, and with a summary by
\* /verify/sync, by a job of /verify and by /verify/stream
ReportsInit == VerifyInit \/ ApiInit \/ StreamInit

ReportsNext == VerifyNext \/ ApiNext

SpecReports == ReportsInit /\ [][ReportsNext]_vars

\* every way a BacklinkResult is produced: verify_backlink alone, the batch, the stream
SpecResults ==
    (VerifyInit \/ BatchInit \/ StreamInit) /\ [][VerifyNext \/ BatchNext]_vars

(***************************************************************************)
(* /upload-file: the urls of a column of a CSV or Excel file.  A file is   *)
(* its name and what pandas makes of its contents: a table (the column     *)
(* names and, per column, its cells, None for an empty cell) or the        *)
(* exception of the reader.                                                *)
(***************************************************************************)
FileSuffixes == {".csv", ".xlsx", ".xls"}

UrlKeywords ==
    {"submitted url", "submitted_url", "submittedurl", "url", "website", "link", "domain",
     "site"}

NotUrls == {"nan", "none", "", "null"}

\* HTTPException(status_code, detail)
HTTPException(status_code, detail) ==
    [type |-> "HTTPException", status_code |-> status_code, detail |-> detail]

\* the columns whose name holds a keyword, in the order of the file
UrlColumns(columns) ==
    SelectSeq([i \in 1..Len(columns) |-> i],
              LAMBDA i : \E keyword \in UrlKeywords :
                             Contains(Strip(Lower(columns[i])), keyword))

\* the first matching column, or the first of them with 'submitted' in its name
UrlColumn(columns) ==
    LET url_columns == UrlColumns(columns)
        submitted == {k \in 1..Len(url_columns) :
                         Contains(Lower(columns[url_columns[k]]), "submitted")}
    IN  IF submitted = {} THEN url_columns[1]
        ELSE url_columns[CHOOSE k \in submitted : \A j \in submitted : k <= j]

\* one cell, stripped, with https:// put before a name with a dot
CleanCell(cell) ==
    LET url == Strip(cell)
    IN  IF ~StartsWith(url, "http://") /\ ~StartsWith(url, "https://") /\ Contains(url, ".")
        THEN "https://" \o url ELSE url

\* cleaned_urls: dropna, then the cells that are not blank and not a word for nothing
CleanedUrls(cells) ==
    LET present == SelectSeq(cells, LAMBDA cell : cell # None)
        kept == SelectSeq(present, LAMBDA cell : Strip(cell[1]) # ""
                                                 /\ Lower(Strip(cell[1])) \notin NotUrls)
    IN  [k \in 1..Len(kept) |-> CleanCell(kept[k][1])]

\* the try block of upload_file: what it returns or raises
UploadBody(file) ==
    IF file.read.ctl = "raise" THEN Raise(<<>>, file.read.exc)
    ELSE
    LET columns == file.read.value.columns
        excel == EndsWith(Lower(file.filename), ".xlsx") \/ EndsWith(Lower(file.filename), ".xls")
    IN  IF UrlColumns(columns) = <<>>
        THEN Raise(<<>>, HTTPException(400, <<"No URL column found. Available columns: ",
                                              columns>>))
        ELSE
        LET url_column == UrlColumn(columns)
            cleaned_urls == CleanedUrls(file.read.value.cells[url_column])
        IN  IF cleaned_urls = <<>>
            THEN Raise(<<>>, HTTPException(400, <<"No valid URLs found in column ",
                                                  columns[url_column]>>))
            ELSE Return(<<>>, [urls |-> cleaned_urls,
                               total_count |-> Len(cleaned_urls),
                               column_used |-> columns[url_column],
                               file_type |-> IF excel THEN "Excel" ELSE "CSV",
                               available_columns |-> columns])

\* upload_file: the answer of the endpoint, an error as [status_code, detail]; the
\* pieces of a formatted detail are kept apart
upload_file(file) ==
    IF \A suffix \in FileSuffixes : ~EndsWith(Lower(file.filename), suffix)
    THEN [status_code |-> 400, detail |-> "File must be CSV, XLSX, or XLS"]
    ELSE
    LET body == UploadBody(file)
    IN  IF body.ctl = "return" THEN body.value
        ELSE IF body.exc.type = "EmptyDataError"
        THEN [status_code |-> 400, detail |-> "File is empty or corrupted"]
        ELSE IF body.exc.type = "ParserError"
        THEN [status_code |-> 400, detail |-> <<"Error parsing file: ", body.exc.msg>>]
        ELSE [status_code |-> 500, detail |-> <<"Error processing file: ", body.exc>>]

\* the longest column of an uploaded table
MaxRows == 2

UploadCells == {None, Some("example.com"), Some(" https://a.test/x "), Some("NaN"),
                Some("  "), Some("localhost")}

UploadColumns ==
    {<<"Name", "Notes">>, <<"Name", " Website ">>, <<"URL", "Submitted URL">>}

UploadTables ==
    {[columns |-> columns, cells |-> [i \in 1..Len(columns) |-> cells]] :
        columns \in UploadColumns,
        cells \in UNION {[1..n -> UploadCells] : n \in 0..MaxRows}}

UploadReads ==
    {Return(<<>>, table) : table \in UploadTables}
    \cup {Raise(<<>>, [type |-> "EmptyDataError", msg |-> "No columns to parse from file"]),
          Raise(<<>>, [type |-> "ParserError", msg |-> "Error tokenizing data"]),
          Raise(<<>>, [type |-> "UnicodeDecodeError", msg |-> "invalid start byte"])}

Uploads ==
    {[filename |-> filename, read |-> read] :
        filename \in {"links.csv", "Links.XLSX", "notes.txt"}, read \in UploadReads}

\* a file is posted to /upload-file
UploadReceived ==
    /\ b_mode = "idle" /\ u_file = None
    /\ \E file \in Uploads : u_file' = Some(file)
    /\ UNCHANGED <<job_results, a_response, a_job, a_tasks, batchVars, fetchVars, verifyVars>>

\* the answer of the endpoint to the file received
UploadAnswer == upload_file(u_file[1])

UploadReturns ==
    /\ u_file # None /\ a_response = None
    /\ "urls" \in DOMAIN UploadAnswer
    /\ a_response' = Some(UploadAnswer)
    /\ UNCHANGED <<job_results, u_file, a_job, a_tasks, batchVars, fetchVars, verifyVars>>

UploadClientError ==
    /\ u_file # None /\ a_response = None
    /\ "detail" \in DOMAIN UploadAnswer /\ UploadAnswer.status_code = 400
    /\ a_response' = Some(UploadAnswer)
    /\ UNCHANGED <<job_results, u_file, a_job, a_tasks, batchVars, fetchVars, verifyVars>>

UploadServerError ==
    /\ u_file # None /\ a_response = None
    /\ "detail" \in DOMAIN UploadAnswer /\ UploadAnswer.status_code = 500
    /\ a_response' = Some(UploadAnswer)
    /\ UNCHANGED <<job_results, u_file, a_job, a_tasks, batchVars, fetchVars, verifyVars>>

UploadNext == UploadReceived \/ UploadReturns \/ UploadClientError \/ UploadServerError

\* the server has started: nothing fetched, no job, no file yet
UploadInit ==
    /\ FetchIdle
    /\ VerifyIdle
    /\ BatchIdle

SpecUpload == UploadInit /\ [][UploadNext]_vars

(***************************************************************************)
(* Properties of the fetcher, under SpecFetch.                             *)
(***************************************************************************)
FetchSucceeded == f_pc = "returned" /\ f_result.success

FetchFailed == f_pc = "returned" /\ ~f_result.success

\* the last request was answered by a response with this status
AnsweredStatus(status) ==
    f_env # None /\ f_env[1].kind = "response" /\ f_env[1].status = status

\* the last request was the last one the loop may issue
LastAttemptDone == Len(f_seen) >= f_max_retries

\* C5: every dict returned by fetch_page_content, on every return path, is either a
\* success that carries text_content and html_content and no error, or a failure
\* that carries error and neither text_content nor html_content.
C5_FetchOutcomeShape ==
    f_pc = "returned" =>
        \/ /\ f_result.success
           /\ {"text_content", "html_content"} \subseteq DOMAIN f_result
           /\ "error" \notin DOMAIN f_result
        \/ /\ ~f_result.success
           /\ "error" \in DOMAIN f_result
           /\ f_result.error # ""
           /\ "text_content" \notin DOMAIN f_result
           /\ "html_content" \notin DOMAIN f_result

\* a 403 answered with usable content has returned a success with the warning
C5_Witness == AnsweredStatus(403) /\ FetchSucceeded /\ "warning" \in DOMAIN f_result

\* C6 as stated: a 403 response yields success if and only if the body is non-empty
\* and its decoded length exceeds 100 characters; a body of 100 characters or fewer
\* never yields success.
C6_DecodedLengthDecides ==
    AnsweredStatus(403) =>
        LET env == f_env[1]
        IN  FetchSucceeded <=>
                (env.content_len > 0 /\ env.text # None /\ Len(env.text[1]) > 100)

\* C6, amended: a 403 response yields success (with the warning, status_code 403 and
\* the decoded, lower-cased body as text and html content) if and only if the body is
\* non-empty and its decoded, lower-cased text is longer than 100 characters;
\* otherwise the loop goes on while attempts remain, and after the last attempt the
\* outcome is a failure with status_code 403.
C6_LoweredLengthDecides ==
    AnsweredStatus(403) =>
        LET env == f_env[1]
            usable == env.content_len > 0 /\ env.text # None
                          /\ Len(Lower(env.text[1])) > 100
        IN  /\ FetchSucceeded <=> usable
            /\ usable =>
                 f_result = [success |-> TRUE,
                             text_content |-> Lower(env.text[1]),
                             html_content |-> Lower(env.text[1]),
                             status_code |-> Some(403),
                             url |-> env.url,
                             warning |-> "403 Forbidden but content was accessible"]
            /\ ~usable /\ ~LastAttemptDone => f_pc = "loop"
            /\ ~usable /\ LastAttemptDone =>
                 FetchFailed /\ f_result.status_code = Some(403)

\* max_retries 403 responses without usable content ended in the 403 failure
C6_Witness ==
    /\ AnsweredStatus(403)
    /\ FetchFailed
    /\ Len(f_seen) > 1
    /\ \A i \in 1..Len(f_seen) : f_seen[i] = "403"

\* the answers that make an attempt fail: a timeout, another request exception, an
\* HTTP-error status, a 403 without usable content, a 429
FailingAnswer(env) ==
    \/ env.kind \in {"timeout", "exception"}
    \/ /\ env.kind = "response"
       /\ \/ env.status = 429
          \/ env.status = 403 /\ ~Has403Content(env)
          \/ env.status \notin {403, 429} /\ RaisesForStatus(env.status)

\* C7 without "it never raises"
C7_ReturnsOnlyFromLastAttempt ==
    /\ Len(f_seen) <= f_max_retries
    /\ FetchFailed => LastAttemptDone
    /\ (f_env # None /\ FailingAnswer(f_env[1]) /\ ~LastAttemptDone) => f_pc = "loop"

\* C7: fetch_page_content issues at most max_retries requests and always returns a
\* dict (it never raises); a failure is returned only once the last attempt is done;
\* a failing answer to an earlier attempt leads to a further attempt and is not
\* returned; a success may be returned by any attempt.
C7_FailureOnlyFromLastAttempt ==
    /\ Len(f_seen) <= f_max_retries
    /\ f_pc # "raised"
    /\ FetchFailed => LastAttemptDone
    /\ (f_env # None /\ FailingAnswer(f_env[1]) /\ ~LastAttemptDone) => f_pc = "loop"

VerifyFetchedPage == v_result # None /\ v_result[1].success

VerifyDone == v_pc = "done" /\ VerifyFetchedPage

SearchOrder == <<"text", "html", "url", "links">>

\* the place of a search block in SearchOrder
StepRank(step) == CHOOSE i \in 1..Len(SearchOrder) : SearchOrder[i] = step

\* some variation occurs in content
Occurs(content) == \E k \in 1..Len(v_variations) : Contains(content, v_variations[k])

\* the block may run at all
Eligible(step) == step \in {"text", "url"} \/ v_search_in_html

\* the block, run on its own, finds a match
Matches(step) ==
    CASE step = "text" -> Occurs(v_result[1].text_content)
      [] step = "html" -> Occurs(v_result[1].html_content)
      [] step = "url" -> Occurs(Lower(v_result[1].url))
      [] step = "links" ->
            LinkCheck(MatchStart, v_search_term, v_result[1].html_content).found_in_html

\* the content a block scans for the variations
Scanned(step) ==
    CASE step = "text" -> v_result[1].text_content
      [] step = "html" -> v_result[1].html_content
      [] step = "url" -> Lower(v_result[1].url)

\* the eligible blocks that match
Deciders == {i \in 1..Len(SearchOrder) : Eligible(SearchOrder[i]) /\ Matches(SearchOrder[i])}

\* the eligible blocks up to the first that matches, all of them when none does
ExpectedSteps ==
    SelectSeq(SearchOrder,
              LAMBDA step : Eligible(step)
                            /\ \A i \in Deciders : StepRank(step) <= i)

\* C10: with case_sensitive set, the variations searched are exactly the one literal
\* search term as given, neither lowercased nor extended with protocol or www.
\* forms, whatever the term.
C10_CaseSensitiveSingleVariation ==
    (v_case_sensitive /\ VerifyFetchedPage) => v_variations = <<v_search_term>>

\* a mixed-case term whose lowercase form is in the page text was searched as given
\* and not found
C10_Witness ==
    /\ v_case_sensitive
    /\ VerifyDone
    /\ v_search_term # Lower(v_search_term)
    /\ Contains(v_result[1].text_content, Lower(v_search_term))
    /\ v_m.steps = <<"text", "url">>
    /\ ~v_ret.verified

\* C4: after a failed fetch verify_backlink returns verified false, found_in None,
\* no context, the error and the status code of the fetch result, and no search
\* block (text, html, url, links) has been entered, whatever the term and options.
C4_FailedFetchPropagated ==
    (v_pc = "done" /\ ~v_result[1].success) =>
        /\ v_ret.verified = FALSE
        /\ v_ret.found_in = None
        /\ v_ret.context = None
        /\ v_ret.error = Some(v_result[1].error)
        /\ v_ret.status_code = Get(v_result[1], "status_code")
        /\ v_m = MatchStart
        /\ v_variations = <<>>

\* a fetch that failed with a status code has been reported
C4_Witness ==
    /\ v_pc = "done"
    /\ ~v_result[1].success
    /\ v_ret.status_code = Some(403)
    /\ v_ret.error = Some("403 Forbidden - Access denied")

\* the state part of C9
C9_FirstMatchDecides ==
    VerifyFetchedPage =>
        /\ \A i, j \in 1..Len(v_m.steps) :
              i < j => StepRank(v_m.steps[i]) < StepRank(v_m.steps[j])
        /\ \A i \in 1..Len(v_m.steps) : Eligible(v_m.steps[i])
        /\ v_pc = "done" =>
              /\ v_m.steps = ExpectedSteps
              /\ v_ret.found_in = Some("Page Text") <=> Matches("text")
              /\ v_ret.verified <=> Deciders # {}
              /\ v_ret.found_variation = v_m.found_variation
              /\ Deciders # {} =>
                    LET step == v_m.steps[Len(v_m.steps)]
                    IN  /\ StepRank(step) \in Deciders
                        /\ v_ret.found_in =
                              Some(IF step = "text" THEN "Page Text" ELSE "HTML/Links")
                        /\ step # "links" =>
                              \E k \in 1..Len(v_variations) :
                                 /\ v_m.found_variation = Some(v_variations[k])
                                 /\ Contains(Scanned(step), v_variations[k])
                                 /\ \A j \in 1..(k - 1) :
                                       ~Contains(Scanned(step), v_variations[j])

\* the step part of C9
C9_NeverOverwritten ==
    (v_m.found_in_text \/ v_m.found_in_html) => v_m' = v_m

\* C9: the search blocks run in the fixed order text, html (only with
\* search_in_html), final url, links (only with search_in_html); the first block that
\* matches decides found_in (Page Text exactly when a variation occurs in the text),
\* no later block runs or changes found_in, context or found_variation after it, and
\* inside a block the first variation in generation order that occurs is the one kept.
C9_StepOrder == [](C9_FirstMatchDecides) /\ [][C9_NeverOverwritten]_vars

\* the text matched on a variation that is not the first generated while a later
\* variation occurs in the text too and the html would have matched as well
C9_Witness ==
    /\ VerifyDone
    /\ v_m.steps = <<"text">>
    /\ v_search_in_html
    /\ Matches("html")
    /\ \E j, k \in 1..Len(v_variations) :
          /\ 1 < k /\ k < j
          /\ v_ret.found_variation = Some(v_variations[k])
          /\ Contains(v_result[1].text_content, v_variations[j])

(***************************************************************************)
(* Properties of the orchestrator, under SpecBatch and SpecResults.        *)
(***************************************************************************)
\* the url is empty or whitespace only
IsBlank(url) == \A i \in 1..Len(url) : CharAt(url, i) \in Whitespace

\* the places of urls that hold an entry that is not blank
Places == {p \in 1..Len(b_urls) : ~IsBlank(b_urls[p])}

BatchReturned == b_mode = "batch" /\ b_pc = "returned"

\* the result is one built in an except clause
IsProcessingError(result) ==
    /\ ~result.verified
    /\ result.error # None
    /\ StartsWith(result.error[1], "Processing error")

\* C1: for every list of urls and every max_workers from 1 to 10,
\* verify_multiple_backlinks returns exactly one result for each entry that is not
\* blank: blank entries give no result, no other entry is dropped or reported twice,
\* and equal entries each get their own result, in the sequential path and in the
\* pool path alike.
C1_OneResultPerUrl ==
    b_mode = "batch" =>
        /\ Len(b_origin) = Len(b_results)
        /\ \A j \in 1..Len(b_results) :
              /\ b_origin[j] \in Places
              /\ b_results[j].url = Strip(b_urls[b_origin[j]])
              /\ \A k \in 1..Len(b_results) : b_origin[k] = b_origin[j] => k = j
        /\ b_pc = "returned" =>
              /\ {b_origin[j] : j \in 1..Len(b_origin)} = Places
              /\ Len(b_results) = Cardinality(Places)

\* the pool has returned the results of a list with a blank entry and two equal
\* entries, in another order than the one of the list
C1_Witness ==
    /\ BatchReturned
    /\ b_workers > 1
    /\ \E p \in 1..Len(b_urls) : IsBlank(b_urls[p])
    /\ \E p, q \in Places : p # q /\ b_urls[p] = b_urls[q]
    /\ \E j \in 1..(Len(b_origin) - 1) : b_origin[j] > b_origin[j + 1]

\* C2: when verify_backlink raises for an entry of the batch, that entry gets a result
\* with verified false and an error that starts with "Processing error"; every other
\* entry is still verified and reported as usual; the call itself never fails for it,
\* in the sequential path and in the pool path alike.
C2_ProcessingErrorIsolated ==
    b_mode = "batch" =>
        /\ \A j \in 1..Len(b_results) :
              LET outcome == b_outcome[Strip(b_urls[b_origin[j]])]
              IN  IF outcome.ctl = "raise"
                  THEN IsProcessingError(b_results[j])
                  ELSE b_results[j] = outcome.value
        /\ b_pc = "returned" => \A p \in Places : \E j \in 1..Len(b_origin) : b_origin[j] = p
        /\ b_pc = "raised" => (b_i = 0 /\ b_results = <<>> /\ b_exc.type = "AttributeError")

\* the pool has returned a list whose first collected result is a processing error
\* and where a later one is verified
C2_Witness ==
    /\ BatchReturned
    /\ b_workers > 1
    /\ \E i, j \in 1..Len(b_results) :
          /\ i < j
          /\ IsProcessingError(b_results[i])
          /\ b_results[j].verified

\* verified == (found_in is not None)
VerifiedIffFoundIn(result) == result.verified <=> (result.found_in # None)

\* the results yielded by generate_results so far
Yielded ==
    {e.result : e \in {x \in {b_events[j] : j \in 1..Len(b_events)} : "type" \in DOMAIN x}}

\* C3: every BacklinkResult produced on any path (by verify_backlink after a fetch
\* that succeeded or failed, in the except clauses of verify_multiple_backlinks, as
\* error_result of generate_results) has verified equal to (found_in is not None).
C3_VerifiedIffFoundIn ==
    /\ v_pc = "done" => VerifiedIffFoundIn(v_ret)
    /\ \A j \in 1..Len(b_results) : VerifiedIffFoundIn(b_results[j])
    /\ \A result \in Yielded : VerifiedIffFoundIn(result)

\* the stream has completed after yielding an error_result and a verified result
C3_Witness ==
    /\ b_mode = "stream"
    /\ b_pc = "returned"
    /\ \E result \in Yielded : IsProcessingError(result)
    /\ \E result \in Yielded : result.verified /\ result.found_in = Some("Page Text")

(***************************************************************************)
(* Properties of the variations and of the result, under SpecVerify.       *)
(***************************************************************************)
\* the place of the first x in xs
FirstIndex(xs, x) == CHOOSE i \in 1..Len(xs) : xs[i] = x /\ \A j \in 1..(i - 1) : xs[j] # x

\* the strings the code lists for the call in progress, duplicates included
Listed == IF v_case_sensitive THEN <<v_search_term>> ELSE RawVariations(v_search_term)

\* C11: the variations generated for a term and a case_sensitive flag hold no string
\* twice, hold exactly the strings the code lists, each at the place of its first
\* occurrence in the order they are listed, and start with the lowercased term when
\* case_sensitive is off; nothing else (page, url, search_in_html) enters the list.
C11_VariationsDedupOrdered ==
    VerifyFetchedPage =>
        /\ \A i, j \in 1..Len(v_variations) : v_variations[i] = v_variations[j] => i = j
        /\ {v_variations[i] : i \in 1..Len(v_variations)} = {Listed[i] : i \in 1..Len(Listed)}
        /\ \A i, j \in 1..Len(v_variations) :
              i < j => FirstIndex(Listed, v_variations[i]) < FirstIndex(Listed, v_variations[j])
        /\ ~v_case_sensitive => v_variations[1] = Lower(v_search_term)

\* a case-insensitive search whose listed strings repeat, some of them not next to
\* each other, has returned
C11_Witness ==
    /\ VerifyDone
    /\ ~v_case_sensitive
    /\ Len(v_variations) < Len(Listed)
    /\ v_search_term # Lower(v_search_term)
    /\ \E i, j \in 1..Len(Listed) : i + 1 < j /\ Listed[i] = Listed[j] /\ Listed[i + 1] # Listed[i]

\* the part of C12 that holds: found_variation is present exactly in verified results,
\* and the text, html and url blocks record a member of the variations
C12_PresentIffVerified ==
    v_pc = "done" =>
        /\ (v_ret.found_variation # None) <=> v_ret.verified
        /\ (v_ret.verified /\ v_m.steps[Len(v_m.steps)] # "links") =>
              \E k \in 1..Len(v_variations) : v_ret.found_variation = Some(v_variations[k])

\* C12: in every result found_variation is present if and only if verified is true,
\* and when present it is one of the variations generated for the term and the
\* case_sensitive flag, whichever of the four search blocks matched.
C12_MatchedVariationIsVariation ==
    v_pc = "done" =>
        /\ (v_ret.found_variation # None) <=> v_ret.verified
        /\ v_ret.found_variation # None =>
              \E k \in 1..Len(v_variations) : v_ret.found_variation = Some(v_variations[k])

\* the part of C13 that holds: a result that is not verified carries no context
C13_ContextOnlyWhenVerified ==
    v_pc = "done" => (v_ret.context # None => v_ret.verified)

\* C13: in every result context is present only when verified is true, and every
\* verified result carries a context that is not empty.
C13_ContextIffVerified ==
    v_pc = "done" =>
        /\ v_ret.context # None => v_ret.verified
        /\ v_ret.verified => (v_ret.context # None /\ v_ret.context[1] # "")

\* C14: the context of a result, when present, has at most 500 characters, whatever
\* the page, the term and the block that matched (the "HTML: " form, the window
\* recentred between ellipses, "Found in page URL: " followed by a url of any length).
C14_ContextAtMost500 ==
    (v_pc = "done" /\ v_ret.context # None) => Len(v_ret.context[1]) <= 500

\* a match in a url of more than 500 characters has been reported with a context cut
\* to 500 characters
C14_Witness ==
    /\ VerifyDone
    /\ v_ret.verified
    /\ v_m.steps[Len(v_m.steps)] = "url"
    /\ Len(v_m.context[1]) > 500
    /\ Len(v_ret.context[1]) = 500
    /\ StartsWith(v_ret.context[1], "Found in page URL: ")

\* the scenario: the term example.com, case-insensitive, on the page text
\* "visit www.example.com today"
WwwScenario ==
    /\ VerifyDone
    /\ v_search_term = "example.com"
    /\ ~v_case_sensitive
    /\ v_result[1].text_content = "visit www.example.com today"

\* C15 as stated: in the scenario the result is verified, found in the page text, and
\* found_variation is one of the generated forms of www.example.com.
C15_WwwFormMatched ==
    WwwScenario =>
        /\ v_ret.verified
        /\ v_ret.found_in = Some("Page Text")
        /\ v_ret.found_variation # None
        /\ Contains(v_ret.found_variation[1], "www.example.com")

\* C15, amended: in the scenario the result is verified, found in the page text, and
\* found_variation is the lowercased term example.com itself, the first variation,
\* which occurs inside www.example.com.
C15_BareTermMatched ==
    WwwScenario =>
        /\ v_ret.verified
        /\ v_ret.found_in = Some("Page Text")
        /\ v_ret.found_variation = Some("example.com")
        /\ v_ret.context = Some("visit www.example.com today")

\* the scenario has been run, and a www. form is among the variations after the term
C15_Witness ==
    /\ WwwScenario
    /\ v_ret.verified
    /\ \E k \in 2..Len(v_variations) : v_variations[k] = "www.example.com"

\* the term is plain text: it holds none of the url indicators
PlainText(search_term) == \A indicator \in UrlIndicators : ~Contains(Lower(search_term), indicator)

\* a plain-text term that occurs in the html, and neither in the page text nor in
\* the final url, has been searched
HtmlOnlyTerm ==
    /\ VerifyDone
    /\ PlainText(v_search_term)
    /\ ~Contains(v_result[1].text_content, v_search_term)
    /\ ~Contains(Lower(v_result[1].url), v_search_term)
    /\ Contains(v_result[1].html_content, v_search_term)

\* the fetch result with the html taken away
WithoutHtml(result) == [result EXCEPT !.html_content = ""]

\* C16: a plain-text term that occurs in the html only is verified with found_in
\* "HTML/Links" when search_in_html is set and is not verified when it is not; with
\* search_in_html unset the result is the one of the same page without its html, and
\* neither the html block nor the links block is entered.
C16_HtmlOnlyWithFlag ==
    /\ HtmlOnlyTerm =>
          IF v_search_in_html
          THEN v_ret.verified /\ v_ret.found_in = Some("HTML/Links")
          ELSE ~v_ret.verified
    /\ (VerifyDone /\ ~v_search_in_html) =>
          /\ \A i \in 1..Len(v_m.steps) : v_m.steps[i] \in {"text", "url"}
          /\ v_ret = MatchResult(v_url, v_search_term, v_result[1],
                                 SearchPage(v_search_term, FALSE,
                                            WithoutHtml(v_result[1]), v_variations))

\* acmewidgets, found in an href only, was searched without search_in_html and not
\* found
C16_Witness ==
    /\ HtmlOnlyTerm
    /\ v_search_term = "acmewidgets"
    /\ ~v_search_in_html
    /\ ~v_ret.verified
    /\ Contains(v_result[1].html_content, "href=\"https://acmewidgets.io/partner\"")

\* the calls of verify_backlink in progress
InFlight == FuturesIn("running")

\* the most calls the request allows at a time
InFlightLimit == IF b_max_workers < PoolLimit THEN b_max_workers ELSE PoolLimit

\* C17: verify_multiple_backlinks never has more than min(max_workers, 3) calls of
\* verify_backlink in progress, whatever max_workers in 1..10 and whatever the urls;
\* the executor is never given more threads than that, and with max_workers = 1
\* the calls are made one after the other in the calling thread.
C17_InFlightBounded ==
    b_mode = "batch" =>
        /\ Cardinality(InFlight) <= InFlightLimit
        /\ b_workers <= InFlightLimit
        /\ b_max_workers = 1 => (b_futures = <<>> /\ b_pc \notin {"pool", "collect", "sleep"})

\* ten workers were asked for and three calls are in progress, one per thread
C17_Witness ==
    /\ b_mode = "batch"
    /\ b_max_workers = MaxWorkersLimit
    /\ Cardinality(InFlight) = PoolLimit
    /\ FuturesIn("queued") = {}

\* the results so far are in the order of the urls they are for
InInputOrder == \A j \in 1..Len(b_origin) : \A k \in 1..(j - 1) : b_origin[k] < b_origin[j]

\* the future collected by this step had finished before every other finished one
\* that is still to be collected
CollectsFirstFinished ==
    \A k \in 1..Len(b_futures) :
        (b_futures[k].state = "done" /\ b_futures'[k].state = "collected") =>
            \A j \in FuturesIn("done") : b_futures[k].seq <= b_futures[j].seq

\* the part of C18 that holds: the sequential path and the stream keep the order of
\* the urls
C18_SequentialInInputOrder ==
    (b_pc = "sequential" \/ b_workers = 1 \/ b_mode = "stream") => InInputOrder

\* C18 as stated: in the sequential path and in every answer of /verify/sync the
\* results are in the order of the urls; in the pool path they are in the order in
\* which the calls finished.
C18_InputOrCompletionOrder ==
    /\ [](C18_SequentialInInputOrder /\ (b_mode = "sync" => InInputOrder))
    /\ [][CollectsFirstFinished]_vars

\* the summary counts results as the claim says; success_rate is in tenths of a
\* percent, the tenth nearest to 1000 * verified / total
SummaryOf(summary, results) ==
    LET total == Len(results)
        verified == Cardinality({j \in 1..total : results[j].verified})
        errors == Cardinality({j \in 1..total : results[j].error # None})
        off == summary.success_rate * total - 1000 * verified
    IN  /\ summary.total_urls = total
        /\ summary.verified_count = verified
        /\ summary.error_count = errors
        /\ IF total = 0 THEN summary.success_rate = 0
           ELSE 2 * off <= total /\ -2 * off <= total

\* the results generate_results has yielded, in the order of the events
YieldedResults ==
    LET events == SelectSeq(b_events, LAMBDA event : "type" \in DOMAIN event)
    IN  [j \in 1..Len(events) |-> events[j].result]

\* C19: in the record of a completed job, in the answer of /verify/sync and in the
\* last event of /verify/stream, total_urls is the number of results reported,
\* verified_count the number of verified ones, error_count the number of those with an
\* error, and success_rate is 0 without results and else 100 * verified_count /
\* total_urls rounded to one decimal.
C19_SummaryCounts ==
    /\ \A job_id \in DOMAIN job_results :
          job_results[job_id].status = "completed" =>
              SummaryOf(job_results[job_id].summary[1], job_results[job_id].results[1])
    /\ (b_mode = "sync" /\ a_response # None /\ "summary" \in DOMAIN a_response[1]) =>
          SummaryOf(a_response[1].summary[1], a_response[1].results[1])
    /\ \A j \in 1..Len(b_events) :
          "summary" \in DOMAIN b_events[j] =>
              /\ SummaryOf(b_events[j].summary, YieldedResults)
              /\ b_events[j].all_results = YieldedResults

\* a job has completed with three results: two verified, one with an error, and a
\* success rate of 66.7
C19_Witness ==
    /\ b_mode = "job"
    /\ JobId \in DOMAIN job_results
    /\ job_results[JobId].status = "completed"
    /\ job_results[JobId].summary[1] =
          [total_urls |-> 3, verified_count |-> 2, error_count |-> 1, success_rate |-> 667]
    /\ Len(job_results[JobId].results[1]) = 3

\* the moves of the status of a job
Lifecycle ==
    {<<"pending", "processing">>, <<"processing", "completed">>, <<"processing", "error">>}

Terminal == {"completed", "error"}

\* the fields of the record go with its status
FieldsOfStatus(job) ==
    /\ job.status \in {"pending", "processing"} \cup Terminal
    /\ (job.results # None) <=> (job.status = "completed")
    /\ (job.summary # None) <=> (job.status = "completed")
    /\ (job.error # None) <=> (job.status = "error")
    /\ (job.completed_at # None) <=> (job.status \in Terminal)

\* a step leaves every record alone or moves its status along Lifecycle; a terminal
\* record is never written again; a new record is pending
LifecycleStep ==
    \A job_id \in DOMAIN job_results' :
        IF job_id \in DOMAIN job_results
        THEN \/ job_results'[job_id] = job_results[job_id]
             \/ /\ <<job_results[job_id].status, job_results'[job_id].status>> \in Lifecycle
                /\ job_results[job_id].status \notin Terminal
        ELSE job_results'[job_id].status = "pending"

\* C20: the status of a job only moves pending -> processing -> completed or
\* pending -> processing -> error; a completed or failed job never changes again, no
\* status is skipped or met twice; results and summary are there exactly when the
\* status is completed, error exactly when it is error, completed_at exactly when it is
\* one of the two.
C20_JobLifecycle ==
    /\ [](\A job_id \in DOMAIN job_results : FieldsOfStatus(job_results[job_id]))
    /\ [][LifecycleStep]_vars

\* a job has failed: its record holds the text of the exception and the time
C20_Witness ==
    /\ JobId \in DOMAIN job_results
    /\ job_results[JobId].status = "error"
    /\ job_results[JobId].error # None
    /\ job_results[JobId].completed_at # None
    /\ b_pc = "finished"

\* the job of this run is in the store with this status
JobIs(status) == JobId \in DOMAIN job_results /\ job_results[JobId].status = status

\* the parts of C21 that hold: /verify answers with the pending record before any url
\* of the batch is taken, and no answer of /status ever says processing
C21_SubmitReturnsFirst ==
    /\ (b_mode = "job" /\ b_pc = "task") =>
          /\ a_response = Some(PendingJob(JobId))
          /\ JobIs("pending")
          /\ b_i = 0 /\ b_results = <<>> /\ b_futures = <<>>
    /\ (b_mode = "job" /\ a_response # None) => a_response[1].status # "processing"

\* C21 as stated: /verify answers with the job id before the batch has run, and while
\* the job is processing a request to /status can be served (and then says
\* processing).
C21_PollableWhileProcessing ==
    /\ (b_mode = "job" /\ b_pc = "task") => a_response = Some(PendingJob(JobId))
    /\ JobIs("processing") => ENABLED get_job_status

\* every job submitted ends completed or failed
C21_JobEnds == (b_mode = "job") ~> (JobIs("completed") \/ JobIs("error"))

\* SpecApi with every step that can be taken eventually taken: the threads run, every
\* call of verify_backlink returns or raises
SpecApiFair == SpecApi /\ WF_vars(ApiNext)

\* what an event of the stream is: "started", "processing", "result", "completed"
Kind(event) == IF "type" \in DOMAIN event THEN event.type ELSE event.status

\* the places in b_events of the events of a kind
EventsOf(kind) == {j \in 1..Len(b_events) : Kind(b_events[j]) = kind}

Reported ==
    \/ JobIs("completed")
    \/ a_response # None /\ "summary" \in DOMAIN a_response[1] /\ a_response[1].summary # None
    \/ b_pc = "returned"

\* the part of C23 that holds: a request without any url is answered with an error at
\* once
C23_NoUrlRejected ==
    (b_mode \in {"sync", "job"} /\ b_pc # "received" /\ a_response # None
        /\ "detail" \in DOMAIN a_response[1] /\ a_response[1].status_code = 422) =>
        /\ b_urls = <<>> /\ b_i = 0 /\ job_results = <<>>

\* C23 as stated: a request whose list of urls is empty, or empty once the blank
\* entries are removed, fails at once and never yields a report, not even an empty one.
C23_EmptyListFails ==
    (b_mode \in {"sync", "job"} /\ \A p \in 1..Len(b_urls) : IsBlank(b_urls[p])) => ~Reported

\* the endpoint has answered with this HTTP error
AnsweredError(status_code) ==
    /\ a_response # None
    /\ "detail" \in DOMAIN a_response[1]
    /\ a_response[1].status_code = status_code

\* C24: /verify/sync answers a request of more than 10 urls with the client error 400
\* before any url is taken, and takes every request of 1 to 10 urls; /verify and
\* /verify/stream take longer lists as well.
C24_SyncCap ==
    /\ (b_mode = "sync" /\ b_pc = "finished" /\ ~AnsweredError(422)) =>
          IF Len(b_urls) > 10
          THEN AnsweredError(400) /\ b_i = 0 /\ b_results = <<>> /\ b_futures = <<>>
               /\ b_workers = 0
          ELSE ~AnsweredError(400)
    /\ (b_mode = "sync" /\ Len(b_urls) > 10) => b_pc \in {"received", "request", "finished"}
    /\ b_mode \in {"job", "stream"} => ~AnsweredError(400)
    /\ (b_mode = "job" /\ b_pc = "finished" /\ ~AnsweredError(422)) =>
          (JobIs("completed") \/ JobIs("error"))

\* /verify/sync has refused a list of 11 urls
C24_Witness ==
    /\ b_mode = "sync"
    /\ Len(b_urls) = 11
    /\ AnsweredError(400)
    /\ b_pc = "finished"

\* the places of urls that verify_multiple_backlinks dispatches: the entries not blank
Dispatched == {p \in 1..Len(b_urls) : NonBlank(b_urls[p])}

\* every dispatched call is over and its result is in the list, once
AllCollected ==
    /\ FuturesIn("queued") = {} /\ FuturesIn("running") = {} /\ FuturesIn("done") = {}
    /\ Len(b_results) = Cardinality(Dispatched)
    /\ {b_origin[r] : r \in 1..Len(b_origin)} = Dispatched
    /\ \A r \in 1..Len(b_results) : b_results[r].url = Strip(b_urls[b_origin[r]])

\* C25: verify_multiple_backlinks cancels nothing: when it returns, every call it
\* dispatched has run to its end, returned or caught, and its result is in the list; and
\* on every list it comes to an end, each call returning.
C25_NoCancellation ==
    /\ [](BatchReturned => AllCollected)
    /\ (b_mode = "batch") ~> (b_pc \in {"returned", "raised"})

\* the pool has returned three results, one of them built from a caught exception
C25_Witness ==
    /\ BatchReturned
    /\ Len(b_futures) = 3
    /\ \E r \in 1..Len(b_results) : b_outcome[b_results[r].url].ctl = "raise"
    /\ \E r \in 1..Len(b_results) : b_outcome[b_results[r].url].ctl = "return"

\* the places of f_log that hold a request
Requests == {i \in 1..Len(f_log) : f_log[i].ev = "get"}

\* the request at place i of f_log comes right after a sleep of lo to hi seconds
SleptBefore(i, lo, hi) == i > 1 /\ f_log[i - 1] = [ev |-> "sleep", lo |-> lo, hi |-> hi]

\* C26 with the host classes of the code: the longer backoff goes to the hosts with
\* 'heylink.me' in the name only
C26_BackoffBeforeRetry ==
    \A i \in Requests :
        IF f_log[i].attempt = 0
        THEN i = 1
        ELSE IF Contains(Lower(Netloc(normalize_url(f_url))), "heylink.me")
             THEN SleptBefore(i, 3, 8) /\ f_log[i].sec_fetch
             ELSE SleptBefore(i, 2, 5)

\* C26: the first request of a fetch comes before any sleep; every later request comes
\* right after a backoff sleep of 3 to 8 seconds when it carries the Sec-Fetch-* headers
\* and the Referer, and of 2 to 5 seconds when it does not: the hosts with the longer
\* backoff are the hosts with the extra headers.
C26_BackoffByHostClass ==
    \A i \in Requests :
        IF f_log[i].attempt = 0
        THEN i = 1
        ELSE IF f_log[i].sec_fetch THEN SleptBefore(i, 3, 8) ELSE SleptBefore(i, 2, 5)

\* the links block has matched
LinksMatched ==
    /\ VerifyDone
    /\ v_m.steps # <<>> /\ v_m.steps[Len(v_m.steps)] = "links"
    /\ v_m.found_in_html

\* no block before the links block has matched
NoEarlierMatch ==
    /\ ~Matches("text")
    /\ ~(v_search_in_html /\ Matches("html"))
    /\ ~Matches("url")

\* the term without protocol and "www.", cut before the first "/"
BareDomain(search_term) ==
    Split(Replace(Replace(Replace(Lower(search_term), "https://", ""), "http://", ""),
                  "www.", ""), "/")[1]

\* the links block matches on the first label of domain
MatchesOnLabel(domain) ==
    LET label == Split(domain, ".")[1]
    IN  /\ v_search_in_html
        /\ NoEarlierMatch
        /\ Len(label) > 3
        /\ Contains(v_result[1].html_content, label)

\* C27 with the domain token of the code: protocol and "www." are stripped, and the
\* path cut, only when the lowered term holds "http"
C27_StrippedWhenHttp ==
    VerifyDone =>
        (LinksMatched <=>
            MatchesOnLabel(IF Contains(Lower(v_search_term), "http")
                           THEN BareDomain(v_search_term) ELSE Lower(v_search_term)))

NoContentMatch == ~Matches("text") /\ ~(v_search_in_html /\ Matches("html"))

\* the block of the final url was entered
UrlChecked == \E i \in 1..Len(v_m.steps) : v_m.steps[i] = "url"

\* C28: whenever neither the text block nor the html block matched, with search_in_html
\* set or not, the final url is checked: a variation that occurs in the lowercased
\* final url makes the result verified, found in "HTML/Links", with the context
\* "Found in page URL: " and that url (cut to 500 characters like every context) and
\* with the first such variation as found_variation.
C28_FinalUrlStep ==
    (VerifyDone /\ NoContentMatch) =>
        /\ UrlChecked
        /\ Matches("url") =>
              /\ v_ret.verified
              /\ v_ret.found_in = Some("HTML/Links")
              /\ v_ret.context =
                     Some(Slice("Found in page URL: " \o Lower(v_result[1].url), 0, 500))
              /\ \E k \in 1..Len(v_variations) :
                     /\ v_ret.found_variation = Some(v_variations[k])
                     /\ Contains(Lower(v_result[1].url), v_variations[k])
                     /\ \A j \in 1..(k - 1) :
                            ~Contains(Lower(v_result[1].url), v_variations[j])

\* search_in_html is off and neither text nor html names the term: the final url does
C28_Witness ==
    /\ VerifyDone
    /\ ~v_search_in_html
    /\ ~Occurs(v_result[1].text_content) /\ ~Occurs(v_result[1].html_content)
    /\ v_ret.verified
    /\ v_ret.context = Some("Found in page URL: https://www.example.com/widgets")

\* the file received has a readable table and a name upload_file takes
UploadReadable ==
    /\ u_file # None /\ a_response # None
    /\ \E suffix \in FileSuffixes : EndsWith(Lower(u_file[1].filename), suffix)
    /\ u_file[1].read.ctl = "return"

\* no column name of the table holds a keyword
NoUrlColumn == UrlColumns(u_file[1].read.value.columns) = <<>>

\* the column chosen holds no url
NoValidUrl ==
    /\ ~NoUrlColumn
    /\ LET table == u_file[1].read.value
       IN  CleanedUrls(table.cells[UrlColumn(table.columns)]) = <<>>

\* C29 as the code has it: the two rejections are raised as 400 inside the try block
\* and answered as 500 by its last except clause, the reason kept inside the detail
C29_RejectionsAnswered500 ==
    (UploadReadable /\ (NoUrlColumn \/ NoValidUrl)) =>
        /\ AnsweredError(500)
        /\ a_response[1].detail[1] = "Error processing file: "
        /\ a_response[1].detail[2].type = "HTTPException"
        /\ a_response[1].detail[2].status_code = 400

\* C29: a file without a column named like a url, and a file whose chosen column holds
\* no valid url, are answered with the client error 400 and the reason, and never with
\* the server error 500.
C29_RejectionsAreClientErrors ==
    (UploadReadable /\ (NoUrlColumn \/ NoValidUrl)) =>
        /\ AnsweredError(400)
        /\ ~AnsweredError(500)
        /\ a_response[1].detail[1] = IF NoUrlColumn
                                     THEN "No URL column found. Available columns: "
                                     ELSE "No valid URLs found in column "

\* the call has returned the dict of the statement after the loop
FellThrough ==
    /\ f_pc = "returned"
    /\ f_result = FailureExhausted(normalize_url(f_url), f_max_retries)

\* the last iteration of the loop is over
LastIterationOver == f_max_retries >= 1 /\ f_attempt = f_max_retries - 1 /\ f_pc # "loop"

\* C30 without "every path through the last attempt returns": the statement after the
\* loop is reached only by a call with max_retries 0, which issues no request
C30_FallThroughOnlyWithoutRetries ==
    /\ f_max_retries >= 1 => (~FellThrough /\ ~ENABLED FetchFallThrough)
    /\ FellThrough => (f_max_retries <= 0 /\ f_seen = <<>> /\ f_log = <<>>)
    /\ (f_max_retries <= 0 /\ f_pc # "loop") => FellThrough

\* C30: with max_retries >= 1 the return after the loop ('Failed after N attempts') is
\* never reached: the last iteration always ends in a return of its own; the return
\* after the loop is reached only with max_retries <= 0, and then no request is issued.
C30_FallThroughUnreachable ==
    /\ f_max_retries >= 1 => (~FellThrough /\ ~ENABLED FetchFallThrough)
    /\ LastIterationOver => f_pc = "returned"
    /\ FellThrough => (f_max_retries <= 0 /\ f_seen = <<>> /\ f_log = <<>>)
    /\ (f_max_retries <= 0 /\ f_pc # "loop") => FellThrough

\* the status of the response the returned dict was built from
ReturnedStatus == f_result.status_code[1]

\* C31 with the test of the code: raise_for_status lets every status below 400 through
C31_SuccessBelow400Or403 ==
    /\ FetchSucceeded =>
          /\ f_result.status_code # None
          /\ \/ ReturnedStatus < 400 /\ "warning" \notin DOMAIN f_result
             \/ ReturnedStatus = 403 /\ "warning" \in DOMAIN f_result
    /\ \A status \in {404, 429, 500} : AnsweredStatus(status) => ~FetchSucceeded

\* C31: a successful fetch result carries a status_code from 200 to 299, or 403 together
\* with the warning; a response with any other status (1xx, 3xx, 4xx but 403, 5xx) is
\* never returned as a success.
C31_SuccessOnly2xxOr403 ==
    /\ FetchSucceeded =>
          /\ f_result.status_code # None
          /\ \/ 200 <= ReturnedStatus /\ ReturnedStatus <= 299
             \/ ReturnedStatus = 403 /\ "warning" \in DOMAIN f_result
    /\ (f_env # None /\ f_env[1].kind = "response"
        /\ ~(200 <= f_env[1].status /\ f_env[1].status <= 299) /\ f_env[1].status # 403)
          => ~FetchSucceeded

\* a result with an error names no match, and a verified result has no error
ErrorExcludesMatch(result) ==
    /\ result.error # None =>
          /\ ~result.verified
          /\ result.found_in = None
          /\ result.context = None
          /\ result.found_variation = None
    /\ result.verified => result.error = None

\* the verified and the failed results are no more than all results
WithinTotal(summary) == summary.verified_count + summary.error_count <= summary.total_urls

\* C32: in every result, of verify_backlink, of a batch, of a job, of /verify/sync or of
\* the stream, an error comes with verified False and without found_in, context and
\* found_variation, and a verified result has no error; in every summary verified_count
\* plus error_count is at most total_urls.
C32_ErrorExcludesMatch ==
    /\ v_pc = "done" => ErrorExcludesMatch(v_ret)
    /\ \A j \in 1..Len(b_results) : ErrorExcludesMatch(b_results[j])
    /\ \A result \in Yielded : ErrorExcludesMatch(result)
    /\ \A job_id \in DOMAIN job_results :
          job_results[job_id].status = "completed" =>
              /\ \A j \in 1..Len(job_results[job_id].results[1]) :
                    ErrorExcludesMatch(job_results[job_id].results[1][j])
              /\ WithinTotal(job_results[job_id].summary[1])
    /\ (b_mode = "sync" /\ a_response # None /\ "summary" \in DOMAIN a_response[1]) =>
          /\ \A j \in 1..Len(a_response[1].results[1]) :
                ErrorExcludesMatch(a_response[1].results[1][j])
          /\ WithinTotal(a_response[1].summary[1])
    /\ \A j \in 1..Len(b_events) :
          "summary" \in DOMAIN b_events[j] => WithinTotal(b_events[j].summary)

\* /verify/sync has answered with a verified result, a failed fetch and a caught
\* exception: every result is counted once, as verified or as an error
C32_Witness ==
    /\ b_mode = "sync" /\ a_response # None /\ "summary" \in DOMAIN a_response[1]
    /\ a_response[1].summary[1].verified_count = 1
    /\ a_response[1].summary[1].error_count = 2
    /\ a_response[1].summary[1].total_urls = 3
    /\ \E j \in 1..3 : IsProcessingError(a_response[1].results[1][j])
    /\ \E j \in 1..3 : LET result == a_response[1].results[1][j]
                       IN  result.error # None /\ ~IsProcessingError(result)

\* the records of the job store that a step has changed
ChangedJobs == {job_id \in DOMAIN job_results : job_results'[job_id] # job_results[job_id]}

\* the step is one of process_backlinks for the job a_job'
ProcessStep == a_job' \in DOMAIN job_results /\ b_pc' \in {"start", "finished"}

\* C33: no step drops a record of the job store; a step of process_backlinks for job A
\* changes no record but A's, and what it stores for A are the results of A's own
\* request; a step that submits a job adds one pending record under a new id and
\* changes no record there is; no other step changes the store; and this with several
\* jobs submitted and processed in any order the event loop allows.
C33_OtherJobsUntouched ==
    [][/\ DOMAIN job_results \subseteq DOMAIN job_results'
       /\ ChangedJobs # {} => (ProcessStep /\ ChangedJobs = {a_job'})
       /\ \A job_id \in ChangedJobs :
             job_results'[job_id].status = "completed" =>
                 /\ Len(job_results'[job_id].results[1]) = Len(b_urls)
                 /\ \A j \in 1..Len(b_urls) :
                       job_results'[job_id].results[1][j].url = Strip(b_urls[j])
       /\ DOMAIN job_results' # DOMAIN job_results =>
             /\ ChangedJobs = {}
             /\ \E job_id \in DOMAIN job_results' \ DOMAIN job_results :
                   /\ DOMAIN job_results' = DOMAIN job_results \cup {job_id}
                   /\ job_results'[job_id] = PendingJob(job_id)]_vars

\* the second job was processed first and has completed on its own url, while the
\* first job, submitted for another url, is still pending
C33_Witness ==
    /\ DOMAIN job_results = {"job-1", "job-2"}
    /\ job_results["job-1"].status = "pending"
    /\ job_results["job-2"].status = "completed"
    /\ job_results["job-2"].results[1][1].url = "slow.test"
    /\ "job-1" \in DOMAIN a_tasks /\ a_tasks["job-1"] = <<"blog.test/post">>

\* verify_multiple_backlinks is in its pool path
PoolPath == b_mode = "batch" /\ b_pc \in {"pool", "collect", "sleep"}

\* a thread of the pool is free and a call is queued
WorkerFree == FuturesIn("queued") # {} /\ Cardinality(FuturesIn("running")) < b_workers

\* the collecting thread is in its pacing sleep
Pacing == PoolPath /\ b_pc = "sleep"

\* C34: in the pool path a pacing sleep is entered only by the step that collects a
\* result, one sleep per result, the i-th (from 0) of at least delay + 0.1 * i seconds;
\* every url that is not blank is submitted before the first result is collected; a free
\* worker can take the next queued url at any time, also while the collecting thread
\* sleeps; during the sleep nothing is collected and the call does not return.
C34_PacingDelaysCollectionOnly ==
    /\ [](PoolPath =>
            /\ Len(b_sleeps) = Len(b_results)
            /\ \A i \in 0..(Len(b_sleeps) - 1) :
                  b_sleeps[i + 1].lo = DefaultDelay + i
            /\ Len(b_results) > 0 =>
                  /\ b_i = Len(b_urls)
                  /\ Len(b_futures) = Cardinality(Dispatched)
            /\ WorkerFree => ENABLED WorkerStart
            /\ Pacing => /\ ~ENABLED PoolCollectResult
                         /\ ~ENABLED PoolCollectRaised
                         /\ ~ENABLED BatchReturn)
    /\ [][(PoolPath /\ b_sleeps' # b_sleeps) =>
             /\ Len(b_sleeps') = Len(b_sleeps) + 1
             /\ Len(b_results') = Len(b_results) + 1
             /\ b_pc = "collect" /\ b_pc' = "sleep"]_vars

\* the collecting thread sleeps after the first result, a worker has become free and
\* the third url is still queued: its fetch can start now
C34_Witness ==
    /\ Pacing
    /\ Len(b_results) = 1
    /\ b_workers = 2
    /\ FuturesIn("queued") = {3}
    /\ Cardinality(FuturesIn("running")) = 1
    /\ ENABLED WorkerStart

====
